---- MODULE Spec2Model ----
(***************************************************************************)
(* Ledger reconciliation core of the prediction-market wallet backend:     *)
(* withdrawal requests (Initiate / Approve / Reject), deposit webhooks and *)
(* transfer-outcome webhooks, as concurrent HTTP handlers over one         *)
(* database.  Every database statement is one atomic step; a handler's     *)
(* local variables (the rows it has read) live in its handler record.      *)
(* Statements issued inside db.Begin()..Commit() become visible together   *)
(* at the commit step; reads inside the transaction see the committed      *)
(* state at the time of the statement (no row is locked by a plain SELECT).*)
(***************************************************************************)
EXTENDS Integers, Sequences, FiniteSets, TLC

VARIABLES
    balance,    \* users.account_balance, per user
    requests,   \* withdrawal_requests table: sequence, row id = index
    txs,        \* crypto_transactions table: sequence, row id = index
    transfers,  \* custody service: outbound transfers it was asked to make
    handlers,   \* in-flight HTTP handlers: position and local variables
    last,       \* response of the handler invocation that finished last
    nOps,       \* handler invocations that got past their first checks
    refunds,    \* credits given back: byReject per request id (Reject),
                \* byFailed per transaction id (Failed outcome)
    today,      \* time.Now().Truncate(24 * time.Hour), as a day number
    webhookSecret,  \* os.Getenv("DFNS_WEBHOOK_SECRET"); "" when unset
    conv,       \* the last call of a conversion utility: arguments, result
    wallets,    \* wallets table: set of rows
    delivery    \* the webhook delivery taken last, and whether its signature
                \* verifies against the shared secret

vars == <<balance, requests, txs, transfers, handlers, last, nOps, refunds,
          today, webhookSecret, conv, wallets, delivery>>

----------------------------------------------------------------------------
\* Bounds of the model
MaxOps == 4      \* handler invocations that get past their first checks

Users == {1, 2}
Handlers == {"h1", "h2"}
InitBalance == [u \in Users |-> IF u = 1 THEN 100 ELSE 40]

----------------------------------------------------------------------------
\* Program constants
MinWithdrawalAmount == 10
MaxWithdrawalAmount == 10000
DailyWithdrawalLimit == 50000

TxTypeDeposit == "DEPOSIT"
TxTypeWithdrawal == "WITHDRAWAL"
TxStatusPending == "PENDING"
TxStatusApproved == "APPROVED"
TxStatusCompleted == "COMPLETED"
TxStatusFailed == "FAILED"
TxStatusRejected == "REJECTED"

----------------------------------------------------------------------------
\* Configuration tables

\* dfns.ValidChains / dfns.ValidTokens
ValidChains == {"ethereum", "ethereum-sepolia", "tron", "tron-nile"}
ValidTokens == {"USDC", "USDT"}
IsValidChainName(chain) == chain \in ValidChains
IsValidTokenSymbol(symbol) == symbol \in ValidTokens

\* models.ChainInfo: chain name -> chain id (0: no entry), in the revision
\* of the table that goes with dfns.ValidChains.  Chain ids are keys only;
\* tron-nile's 3448148188 is written as the largest 32-bit integer.
ChainInfoNames == {"ethereum", "ethereum-sepolia", "tron", "tron-nile"}
ChainInfoChainID(chain) ==
    CASE chain = "ethereum"         -> 1
      [] chain = "ethereum-sepolia" -> 11155111
      [] chain = "tron"             -> 728126428
      [] chain = "tron-nile"        -> 2147483647
      [] OTHER                      -> 0

\* Addresses are named by their shape; evmAddressRegex accepts the EVM shape,
\* tronAddressRegex the TRON shape.
EvmAddresses == {"0xEvmAddress"}
TronAddresses == {"TTronAddress"}
IsValidEVMAddress(address) == address \in EvmAddresses
IsValidTronAddress(address) == address \in TronAddresses
\* strings.HasPrefix(chainName, "tron")
IsTronChain(chainName) == chainName \in {"tron", "tron-nile"}
IsValidAddress(address, chainName) ==
    IF IsTronChain(chainName) THEN IsValidTronAddress(address)
    ELSE IsValidEVMAddress(address)

\* supported_chains rows seeded by the migration: chain id -> contract
\* addresses ("" when the token is not on the chain)
SeededChainIds == {1, 137, 8453, 42161}
USDCAddress(chainId) ==
    CASE chainId = 1     -> "0xA0b8"
      [] chainId = 137   -> "0x3c49"
      [] chainId = 8453  -> "0x8335"
      [] chainId = 42161 -> "0xaf88"
      [] OTHER           -> ""
USDTAddress(chainId) ==
    CASE chainId = 1     -> "0xdAC1"
      [] chainId = 137   -> "0xc213"
      [] chainId = 8453  -> ""
      [] chainId = 42161 -> "0xFd08"
      [] OTHER           -> ""

\* wallets rows at the start: user 1 holds an active ethereum wallet, user 2
\* none
Wallets == { [id |-> 1, userId |-> 1, dfnsWalletId |-> "wa-1", chainId |-> 1,
              chainName |-> "ethereum", address |-> "0xWallet1",
              isActive |-> TRUE] }

----------------------------------------------------------------------------
\* Rows and handler records

NoReq == [userId |-> 0, chainId |-> 0, chainName |-> "", token |-> "",
          toAddress |-> "", amount |-> 0,
          status |-> "", txId |-> 0, err |-> "", day |-> 0]
NoTx == [type |-> "", userId |-> 0, status |-> "", credits |-> 0,
         txHash |-> "", dfnsId |-> 0]

Idle == [pc |-> "idle", userId |-> 0, amt |-> 0, bal |-> 0, rid |-> 0,
         req |-> NoReq, tid |-> 0, tx |-> NoTx, dfnsId |-> 0, hash |-> "",
         chainId |-> 0, chainName |-> "", token |-> "", toAddress |-> "",
         reason |-> ""]

\* A response: the operation, its outcome, and for the admin operations
\* the id of the request they were called on
RespFor(op, res, rid) == [op |-> op, res |-> res, rid |-> rid]
Resp(op, res) == RespFor(op, res, 0)

\* The shared secret of a deployment that configures one
ConfiguredSecret == "whsec"

\* TransferEventData: the fields of the data of a transfer event that the
\* handlers read
NoEvent == [id |-> 0, walletId |-> "", txHash |-> "", amount |-> <<"0">>,
            contract |-> "", direction |-> ""]

\* A request body: whether io.ReadAll returns it, whether it unmarshals into
\* a WebhookEvent, the event's kind, whether its data unmarshals into a
\* TransferEventData, and that data
NoBody == [read |-> FALSE, parses |-> FALSE, kind |-> "", dataParses |-> FALSE,
           data |-> NoEvent]

\* No webhook delivered yet.  Otherwise: the body of the latest delivery,
\* whether its signature verified against the shared secret, and the status
\* code of the response; turn alternates with every delivery
NoDelivery == [turn |-> 0, body |-> NoBody, verified |-> FALSE, status |-> 0]

\* No conversion utility called yet
NoConv == [fn |-> "none", args |-> <<>>, out |-> <<>>]

RECURSIVE SumSeq(_)
\* COALESCE(SUM(...), 0) over a sequence of numbers
SumSeq(s) == IF s = <<>> THEN 0 ELSE Head(s) + SumSeq(Tail(s))

----------------------------------------------------------------------------
\* Initial state: empty ledger, every handler idle

Init ==
    /\ balance = InitBalance
    /\ requests = <<>>
    /\ txs = <<>>
    /\ transfers = <<>>
    /\ handlers = [h \in Handlers |-> Idle]
    /\ last = Resp("none", "none")
    /\ nOps = 0
    /\ refunds = [byReject |-> <<>>, byFailed |-> <<>>]
    /\ today = 0
    /\ webhookSecret = ConfiguredSecret
    /\ conv = NoConv
    /\ wallets = Wallets
    /\ delivery = NoDelivery

----------------------------------------------------------------------------
\* Initiate (user, chain, token, amount, toAddress)

ChainInputs == {"ethereum", "tron", "solana"}
TokenInputs == {"USDC", "DAI"}
AddressInputs == {"0xEvmAddress", "TTronAddress"}
AmountInputs == {5, 30, 80, 10001}

\* The validation sequence of the handler, on the user row the middleware
\* loaded; "ok" when every check before the daily limit passes.
InitiateValidation(chain, token, address, amount, accountBalance) ==
    IF ~IsValidChainName(chain) THEN "InvalidChain"
    ELSE IF ~IsValidTokenSymbol(token) THEN "InvalidToken"
    ELSE IF ~IsValidEVMAddress(address) THEN "InvalidAddress"
    ELSE IF amount < MinWithdrawalAmount THEN "BelowMinimum"
    ELSE IF amount > MaxWithdrawalAmount THEN "AboveMaximum"
    ELSE IF accountBalance < amount THEN "InsufficientBalance"
    ELSE "ok"

\* Middleware loads the user row; the request is validated against it.
InitiateCall(h, u, chain, token, address, amount) ==
    /\ handlers[h].pc = "idle"
    /\ nOps < MaxOps
    /\ LET v == InitiateValidation(chain, token, address, amount, balance[u]) IN
       IF v = "ok"
       THEN /\ handlers' = [handlers EXCEPT ![h] =
                   [Idle EXCEPT !.pc = "init_limit", !.userId = u,
                                !.amt = amount, !.bal = balance[u],
                                !.chainId = ChainInfoChainID(chain),
                                !.chainName = chain,
                                !.token = token, !.toAddress = address]]
            /\ nOps' = nOps + 1
            /\ UNCHANGED last
       ELSE /\ last' = Resp("Initiate", v)
            /\ UNCHANGED <<handlers, nOps>>
    /\ UNCHANGED <<balance, requests, txs, transfers, refunds,
                   today, webhookSecret, conv, wallets,
                   delivery>>

InitiateStart(h) ==
    \E u \in Users, chain \in ChainInputs, token \in TokenInputs,
       address \in AddressInputs, amount \in AmountInputs :
        InitiateCall(h, u, chain, token, address, amount)

\* checkDailyWithdrawalLimit: the amounts of the user's requests with
\* created_at >= today and status != REJECTED
DailyTotal(u) ==
    SumSeq([i \in 1..Len(requests) |->
              IF /\ requests[i].userId = u
                 /\ requests[i].day >= today
                 /\ requests[i].status # TxStatusRejected
              THEN requests[i].amount ELSE 0])

\* A limit test that refuses a request reaching the limit exactly
CheckDailyWithdrawalLimitStrict(u, amount) ==
    DailyTotal(u) + amount < DailyWithdrawalLimit
\* nil (TRUE) unless dailyTotal + amount > DailyWithdrawalLimit
CheckDailyWithdrawalLimit(u, amount) ==
    DailyTotal(u) + amount <= DailyWithdrawalLimit

\* The value the handler stores into account_balance: the loaded row's
\* balance minus the amount
DebitedBalance(loaded, amount) == loaded - amount

\* A handler that debits the balance before the daily-limit query and
\* leaves the debit in place when the query refuses
InitiateLimitDebiting(h) ==
    /\ handlers[h].pc = "init_limit"
    /\ LET hd == handlers[h] IN
       IF ~CheckDailyWithdrawalLimit(hd.userId, hd.amt)
       THEN /\ handlers' = [handlers EXCEPT ![h] = Idle]
            /\ last' = Resp("Initiate", "DailyLimitExceeded")
            /\ balance' = [balance EXCEPT ![hd.userId] =
                              DebitedBalance(hd.bal, hd.amt)]
       ELSE IF hd.chainId = 0
       THEN /\ handlers' = [handlers EXCEPT ![h] = Idle]
            /\ last' = Resp("Initiate", "ChainNotConfigured")
            /\ UNCHANGED balance
       ELSE /\ handlers' = [handlers EXCEPT ![h].pc = "init_commit"]
            /\ UNCHANGED <<last, balance>>
    /\ UNCHANGED <<requests, txs, transfers, nOps, refunds,
                   today, webhookSecret, conv, wallets,
                   delivery>>
\* Daily-limit query, then the models.ChainInfo lookup
InitiateLimit(h) ==
    /\ handlers[h].pc = "init_limit"
    /\ LET hd == handlers[h] IN
       IF ~CheckDailyWithdrawalLimit(hd.userId, hd.amt)
       THEN /\ handlers' = [handlers EXCEPT ![h] = Idle]
            /\ last' = Resp("Initiate", "DailyLimitExceeded")
       ELSE IF hd.chainId = 0
       THEN /\ handlers' = [handlers EXCEPT ![h] = Idle]
            /\ last' = Resp("Initiate", "ChainNotConfigured")
       ELSE /\ handlers' = [handlers EXCEPT ![h].pc = "init_commit"]
            /\ UNCHANGED last
    /\ UNCHANGED <<balance, requests, txs, transfers, nOps, refunds,
                   today, webhookSecret, conv, wallets,
                   delivery>>

\* A commit without a transaction around it: when the insert of the request
\* fails, the balance saved before it stays
InitiateCommitUnwrapped(h) ==
    /\ handlers[h].pc = "init_commit"
    /\ LET hd == handlers[h] IN
       \E dbOk \in BOOLEAN :
         /\ balance' = [balance EXCEPT ![hd.userId] =
                           DebitedBalance(hd.bal, hd.amt)]
         /\ IF dbOk
            THEN /\ requests' = Append(requests,
                        [userId |-> hd.userId, chainId |-> hd.chainId,
                         chainName |-> hd.chainName, token |-> hd.token,
                         toAddress |-> hd.toAddress, amount |-> hd.amt,
                         status |-> TxStatusPending, txId |-> 0, err |-> "",
                         day |-> today])
                 /\ refunds' = [refunds EXCEPT !.byReject = Append(@, 0)]
                 /\ last' = Resp("Initiate", "Created")
            ELSE /\ UNCHANGED <<requests, refunds>>
                 /\ last' = Resp("Initiate", "DbError")
    /\ handlers' = [handlers EXCEPT ![h] = Idle]
    /\ UNCHANGED <<txs, transfers, nOps, today, webhookSecret, conv, wallets,
                   delivery>>

\* db.Begin(); Save(user); Create(withdrawalReq); Commit()
InitiateCommit(h) ==
    /\ handlers[h].pc = "init_commit"
    /\ LET hd == handlers[h] IN
       \E dbOk \in BOOLEAN :
         IF dbOk
         THEN /\ balance' = [balance EXCEPT ![hd.userId] =
                                DebitedBalance(hd.bal, hd.amt)]
              /\ requests' = Append(requests,
                     [userId |-> hd.userId, chainId |-> hd.chainId,
                      chainName |-> hd.chainName, token |-> hd.token,
                      toAddress |-> hd.toAddress, amount |-> hd.amt,
                      status |-> TxStatusPending, txId |-> 0, err |-> "",
                      day |-> today])
              /\ refunds' = [refunds EXCEPT !.byReject = Append(@, 0)]
              /\ last' = Resp("Initiate", "Created")
         ELSE /\ UNCHANGED <<balance, requests, refunds>>
              /\ last' = Resp("Initiate", "DbError")
    /\ handlers' = [handlers EXCEPT ![h] = Idle]
    /\ UNCHANGED <<txs, transfers, nOps, today, webhookSecret, conv, wallets,
                   delivery>>

----------------------------------------------------------------------------
\* Approve (admin, requestId, note)

\* Ids of the existing requests, and one id that matches no row
RequestIdInputs == 1..(Len(requests) + 1)

\* An approval test that also lets an APPROVED request through
CanBeApprovedOrRetried(wr) == wr.status \in {TxStatusPending, TxStatusApproved}
CanBeApproved(wr) == wr.status = TxStatusPending
CanBeRejected(wr) == wr.status = TxStatusPending

\* db.Where("user_id = ? AND chain_id = ? AND is_active = ?").First(&wallet)
WalletsFor(userId, chainId) ==
    {w \in wallets : w.userId = userId /\ w.chainId = chainId /\ w.isActive}

\* The switch on TokenSymbol over the supported_chains row
TokenContract(token, chainId) ==
    CASE token = "USDC" -> USDCAddress(chainId)
      [] token = "USDT" -> USDTAddress(chainId)
      [] OTHER          -> "unsupported"

----------------------------------------------------------------------------
\* Conversion utilities (dfns/utils.go).  A decimal string is a sequence of
\* characters; a big.Int is kept as its canonical decimal string (no leading
\* zero), and so is an int64 too large for the integers of the model.

DigitChars == <<"0", "1", "2", "3", "4", "5", "6", "7", "8", "9">>
Digits == {DigitChars[i] : i \in 1..10}
DigitVal(c) == (CHOOSE i \in 1..10 : DigitChars[i] = c) - 1

\* Non-negative decimal strings: what the custody service sends as amount
IsDecimalString(s) == Len(s) > 0 /\ \A i \in 1..Len(s) : s[i] \in Digits

RECURSIVE StripZeros(_)
\* The canonical form of a string of digits
StripZeros(s) ==
    IF Len(s) > 1 /\ Head(s) = "0" THEN StripZeros(Tail(s)) ELSE s

\* amount.SetString(rawAmount, 10), for a decimal string
SetString(rawAmount) == StripZeros(rawAmount)

RECURSIVE Zeros(_)
Zeros(n) == IF n <= 0 THEN <<>> ELSE <<"0">> \o Zeros(n - 1)

\* new(big.Int).Exp(big.NewInt(10), big.NewInt(int64(decimals)), nil)
Exp10(decimals) == <<"1">> \o Zeros(decimals)

\* x < y for canonical non-negative decimal strings
BigLess(x, y) ==
    \/ Len(x) < Len(y)
    \/ /\ Len(x) = Len(y)
       /\ \E i \in 1..Len(x) :
             /\ DigitVal(x[i]) < DigitVal(y[i])
             /\ \A j \in 1..(i - 1) : x[j] = y[j]

Front(s) == SubSeq(s, 1, Len(s) - 1)
Last(s) == s[Len(s)]

RECURSIVE SubDigits(_, _, _)
\* Digit-wise x - y - borrow, for x >= y + borrow; as many digits as x has
SubDigits(x, y, borrow) ==
    IF x = <<>> THEN <<>>
    ELSE LET dy == IF y = <<>> THEN 0 ELSE DigitVal(Last(y))
             d  == DigitVal(Last(x)) - dy - borrow
         IN  SubDigits(Front(x), IF y = <<>> THEN <<>> ELSE Front(y),
                       IF d < 0 THEN 1 ELSE 0)
                 \o <<DigitChars[((d + 10) % 10) + 1]>>

\* x - y for canonical decimal strings with x >= y
BigSub(x, y) == StripZeros(SubDigits(x, y, 0))

\* x * 10^decimals: the decimal string followed by the zeros
BigMulExp10(x, decimals) == IF x = <<"0">> THEN x ELSE x \o Zeros(decimals)

\* new(big.Int).Div(amount, divisor) for divisor 10^decimals: the decimal
\* string without its last digits
BigDivExp10(amount, decimals) ==
    IF Len(amount) <= decimals THEN <<"0">>
    ELSE SubSeq(amount, 1, Len(amount) - decimals)

\* 2^63 and 2^64
Two63 == <<"9","2","2","3","3","7","2","0","3","6","8","5","4","7","7","5",
           "8","0","8">>
Two64 == <<"1","8","4","4","6","7","4","4","0","7","3","7","0","9","5","5",
           "1","6","1","6">>

RECURSIVE Reduce64(_)
\* x mod 2^64 for x < 10 * 2^64
Reduce64(x) == IF BigLess(x, Two64) THEN x ELSE Reduce64(BigSub(x, Two64))

RECURSIVE Mod64(_, _)
\* (rem * 10^Len(s) + s) mod 2^64, digit by digit
Mod64(rem, s) ==
    IF s = <<>> THEN rem
    ELSE Mod64(Reduce64(StripZeros(rem \o <<Head(s)>>)), Tail(s))

\* The low 64 bits of a non-negative big.Int (19 digits are below 2^64)
Low64(x) ==
    IF Len(x) <= 19 THEN x
    ELSE Mod64(SubSeq(x, 1, 19), SubSeq(x, 20, Len(x)))

\* credits.Int64() of a non-negative big.Int: the value itself when it is
\* below 2^63, else its low 64 bits read as a two's complement number
Int64(x) ==
    LET low == Low64(x) IN
    IF BigLess(low, Two63) THEN low
    ELSE <<"-">> \o BigSub(Two64, low)

RECURSIVE NatOf(_)
\* The number a string of digits denotes, within the integers of the model
NatOf(s) == IF s = <<>> THEN 0 ELSE 10 * NatOf(Front(s)) + DigitVal(Last(s))

\* The number an int64 in decimal notation denotes
IntOf(s) == IF Head(s) = "-" THEN 0 - NatOf(Tail(s)) ELSE NatOf(s)

RECURSIVE NatString(_)
NatString(n) ==
    IF n < 10 THEN <<DigitChars[n + 1]>>
    ELSE NatString(n \div 10) \o <<DigitChars[(n % 10) + 1]>>

\* big.NewInt(credits): the big.Int of a non-negative int64
NewInt(credits) == NatString(credits)

\* A conversion that rounds to the nearest credit instead of truncating
ConvertToCreditsRounding(rawAmount, decimals) ==
    LET amount == SetString(rawAmount)
        credits == BigDivExp10(amount, decimals)
        roundsUp == /\ decimals > 0
                    /\ Len(amount) >= decimals
                    /\ DigitVal(amount[Len(amount) - decimals + 1]) >= 5
    IN  IF roundsUp THEN Int64(NatString(NatOf(credits) + 1))
        ELSE Int64(credits)
\* ConvertToCredits: the int64 returned, in decimal notation
ConvertToCredits(rawAmount, decimals) ==
    LET amount == SetString(rawAmount)
        divisor == Exp10(decimals)
        credits == BigDivExp10(amount, Len(divisor) - 1)
    IN  Int64(credits)

\* A conversion that forgets the multiplier
CreditsToTokenAmountUnscaled(credits, decimals) == NewInt(credits)
\* CreditsToTokenAmount: amount.Mul(amount, multiplier).String()
CreditsToTokenAmount(credits, decimals) ==
    LET amount == NewInt(credits)
        multiplier == Exp10(decimals)
    IN  BigMulExp10(amount, Len(multiplier) - 1)

\* The fixed table with its default for every other symbol
GetTokenDecimals(symbol) == IF symbol \in {"USDC", "USDT"} THEN 6 ELSE 18

\* amountCredits as the handler computes with it
AmountCredits(rawAmount, symbol) ==
    IntOf(ConvertToCredits(rawAmount, GetTokenDecimals(symbol)))

\* The lookups that precede the custody call; "ok" when all of them hit
ApproveLookup(id) ==
    IF id > Len(requests) THEN "NotFound"
    ELSE LET wr == requests[id] IN
         IF ~CanBeApproved(wr) THEN "InvalidStateTransition"
         ELSE IF WalletsFor(wr.userId, wr.chainId) = {} THEN "WalletNotFound"
         ELSE IF wr.chainId \notin SeededChainIds THEN "ChainNotConfigured"
         ELSE IF TokenContract(wr.token, wr.chainId) = "unsupported"
              THEN "UnsupportedToken"
         ELSE IF TokenContract(wr.token, wr.chainId) = "" THEN "TokenNotAvailable"
         ELSE "ok"

\* An approval that marks the request FAILED when the custody call fails
ApproveStartGivingUp(h) ==
    /\ handlers[h].pc = "idle"
    /\ nOps < MaxOps
    /\ \E id \in RequestIdInputs, custodyOk \in BOOLEAN :
         LET v == ApproveLookup(id) IN
         IF v # "ok"
         THEN /\ last' = RespFor("Approve", v, id)
              /\ UNCHANGED <<handlers, transfers, nOps, requests>>
         ELSE IF ~custodyOk
         THEN /\ last' = RespFor("Approve", "CustodyServiceError", id)
              /\ requests' = [requests EXCEPT ![id].status = TxStatusFailed]
              /\ UNCHANGED <<handlers, transfers, nOps>>
         ELSE /\ transfers' = Append(transfers,
                     [rid |-> id,
                      raw |-> CreditsToTokenAmount(requests[id].amount,
                                 GetTokenDecimals(requests[id].token))])
              /\ handlers' = [handlers EXCEPT ![h] =
                     [Idle EXCEPT !.pc = "appr_create", !.rid = id,
                                  !.req = requests[id],
                                  !.dfnsId = Len(transfers) + 1]]
              /\ nOps' = nOps + 1
              /\ UNCHANGED <<last, requests>>
    /\ UNCHANGED <<balance, txs, refunds, today, webhookSecret, conv, wallets,
                   delivery>>

\* Loads the request, checks it, resolves wallet and contract, and asks the
\* custody service to transfer.  The request row read here is the one the
\* handler later saves back.  (The custody call touches no database row, so
\* it is taken in the same step as the reads that precede it.)
ApproveStart(h) ==
    /\ handlers[h].pc = "idle"
    /\ nOps < MaxOps
    /\ \E id \in RequestIdInputs, custodyOk \in BOOLEAN :
         LET v == ApproveLookup(id) IN
         IF v # "ok"
         THEN /\ last' = RespFor("Approve", v, id)
              /\ UNCHANGED <<handlers, transfers, nOps>>
         ELSE IF ~custodyOk
         THEN /\ last' = RespFor("Approve", "CustodyServiceError", id)
              /\ UNCHANGED <<handlers, transfers, nOps>>
         ELSE /\ transfers' = Append(transfers,
                     [rid |-> id,
                      raw |-> CreditsToTokenAmount(requests[id].amount,
                                 GetTokenDecimals(requests[id].token))])
              /\ handlers' = [handlers EXCEPT ![h] =
                     [Idle EXCEPT !.pc = "appr_create", !.rid = id,
                                  !.req = requests[id],
                                  !.dfnsId = Len(transfers) + 1]]
              /\ nOps' = nOps + 1
              /\ UNCHANGED last
    /\ UNCHANGED <<balance, requests, txs, refunds, today, webhookSecret, conv, wallets,
                   delivery>>

\* db.Create(&cryptoTx)
ApproveCreateTx(h) ==
    /\ handlers[h].pc = "appr_create"
    /\ LET hd == handlers[h] IN
       /\ txs' = Append(txs,
              [type |-> TxTypeWithdrawal, userId |-> hd.req.userId,
               status |-> TxStatusApproved, credits |-> hd.req.amount,
               txHash |-> "", dfnsId |-> hd.dfnsId])
       /\ handlers' = [handlers EXCEPT ![h].pc = "appr_save",
                                       ![h].tid = Len(txs) + 1]
    /\ refunds' = [refunds EXCEPT !.byFailed = Append(@, 0)]
    /\ UNCHANGED <<balance, requests, transfers, last, nOps,
                   today, webhookSecret, conv, wallets,
                   delivery>>

\* The row db.Save(&withdrawalReq) writes at approval: the loaded row with
\* status and transaction link replaced
ApprovedRow(loaded, tid) ==
    [loaded EXCEPT !.status = TxStatusApproved, !.txId = tid]

\* An approval that takes the amount from the balance a second time
ApproveSaveDebiting(h) ==
    /\ handlers[h].pc = "appr_save"
    /\ LET hd == handlers[h] IN
       /\ requests' = [requests EXCEPT ![hd.rid] = ApprovedRow(hd.req, hd.tid)]
       /\ balance' = [balance EXCEPT ![hd.req.userId] = @ - hd.req.amount]
    /\ handlers' = [handlers EXCEPT ![h] = Idle]
    /\ last' = RespFor("Approve", "Approved", handlers[h].rid)
    /\ UNCHANGED <<txs, transfers, nOps, refunds, today, webhookSecret, conv, wallets,
                   delivery>>

\* db.Save(&withdrawalReq)
ApproveSave(h) ==
    /\ handlers[h].pc = "appr_save"
    /\ LET hd == handlers[h] IN
       requests' = [requests EXCEPT ![hd.rid] = ApprovedRow(hd.req, hd.tid)]
    /\ handlers' = [handlers EXCEPT ![h] = Idle]
    /\ last' = RespFor("Approve", "Approved", handlers[h].rid)
    /\ UNCHANGED <<balance, txs, transfers, nOps, refunds,
                   today, webhookSecret, conv, wallets,
                   delivery>>

----------------------------------------------------------------------------
\* Reject (admin, requestId, reason)

ReasonInputs == {"", "bad address"}

\* The checks of the Reject handler without the CanBeRejected test
RejectLookupNoStateCheck(id, reason) ==
    IF reason = "" THEN "ReasonRequired"
    ELSE IF id > Len(requests) THEN "NotFound"
    ELSE "ok"

\* The checks of the Reject handler without the test of the reason
RejectLookupNoReasonCheck(id, reason) ==
    IF id > Len(requests) THEN "NotFound"
    ELSE IF ~CanBeRejected(requests[id]) THEN "InvalidStateTransition"
    ELSE "ok"

\* The checks before the database transaction; "ok" when the request is to
\* be rejected
RejectLookup(id, reason) ==
    IF reason = "" THEN "ReasonRequired"
    ELSE IF id > Len(requests) THEN "NotFound"
    ELSE IF ~CanBeRejected(requests[id]) THEN "InvalidStateTransition"
    ELSE "ok"

\* Decodes the body, loads the request and checks it
RejectCall(h, id, reason) ==
    /\ handlers[h].pc = "idle"
    /\ nOps < MaxOps
    /\ LET v == RejectLookup(id, reason) IN
       IF v # "ok"
       THEN /\ last' = RespFor("Reject", v, id)
            /\ UNCHANGED <<handlers, nOps>>
       ELSE /\ handlers' = [handlers EXCEPT ![h] =
                   [Idle EXCEPT !.pc = "rej_user", !.rid = id,
                                !.req = requests[id], !.reason = reason]]
            /\ nOps' = nOps + 1
            /\ UNCHANGED last
    /\ UNCHANGED <<balance, requests, txs, transfers, refunds,
                   today, webhookSecret, conv, wallets,
                   delivery>>

RejectStart(h) ==
    \E id \in RequestIdInputs, reason \in ReasonInputs :
        RejectCall(h, id, reason)

\* tx := db.Begin(); tx.First(&user, withdrawalReq.UserID)
RejectReadUser(h) ==
    /\ handlers[h].pc = "rej_user"
    /\ handlers' = [handlers EXCEPT ![h].pc = "rej_commit",
                                    ![h].bal = balance[handlers[h].req.userId]]
    /\ UNCHANGED <<balance, requests, txs, transfers, last, nOps, refunds,
                   today, webhookSecret, conv, wallets,
                   delivery>>

\* The row tx.Save(&withdrawalReq) writes at rejection
RejectedRow(loaded, reason) ==
    [loaded EXCEPT !.status = TxStatusRejected, !.err = reason]

\* tx.Save(&user); tx.Save(&withdrawalReq); tx.Commit()
RejectCommit(h) ==
    /\ handlers[h].pc = "rej_commit"
    /\ LET hd == handlers[h] IN
       \E dbOk \in BOOLEAN :
         IF dbOk
         THEN /\ balance' = [balance EXCEPT ![hd.req.userId] =
                                hd.bal + hd.req.amount]
              /\ requests' = [requests EXCEPT ![hd.rid] =
                                RejectedRow(hd.req, hd.reason)]
              /\ refunds' = [refunds EXCEPT !.byReject[hd.rid] = @ + hd.req.amount]
              /\ last' = RespFor("Reject", "Rejected", hd.rid)
         ELSE /\ UNCHANGED <<balance, requests, refunds>>
              /\ last' = RespFor("Reject", "DbError", hd.rid)
    /\ handlers' = [handlers EXCEPT ![h] = Idle]
    /\ UNCHANGED <<txs, transfers, nOps, today, webhookSecret, conv, wallets,
                   delivery>>

----------------------------------------------------------------------------
\* Deposit webhook: handleInboundTransfer

\* Lower-casing of the contract addresses that occur in the model
LowerCase(a) ==
    CASE a = "0xA0b8" -> "0xa0b8"
      [] a = "0xA0B8" -> "0xa0b8"
      [] a = "0xdAC1" -> "0xdac1"
      [] a = "0x3c49" -> "0x3c49"
      [] a = "0xc213" -> "0xc213"
      [] a = "0x8335" -> "0x8335"
      [] a = "0xaf88" -> "0xaf88"
      [] a = "0xFd08" -> "0xfd08"
      [] OTHER        -> a

\* equalAddresses: equal after lower-casing A..Z (equal lengths follow)
EqualAddresses(a, b) == LowerCase(a) = LowerCase(b)

\* getTokenSymbolFromContract: "" when the chain has no row or the contract
\* is neither of its two
GetTokenSymbolFromContract(contract, chainId) ==
    IF chainId \notin SeededChainIds THEN ""
    ELSE IF EqualAddresses(contract, USDCAddress(chainId)) THEN "USDC"
    ELSE IF EqualAddresses(contract, USDTAddress(chainId)) THEN "USDT"
    ELSE ""

WalletsByDfnsId(dfnsWalletId) ==
    {w \in wallets : w.dfnsWalletId = dfnsWalletId}

\* db.Where("tx_hash = ?", hash).First(&existingTx).Error == nil
TxWithHashExists(hash) == \E i \in 1..Len(txs) : txs[i].txHash = hash

\* Inbound-transfer notifications the custody service may deliver: the
\* custody id of the transfer, its hash, the amount in raw token units
InboundEvents ==
    { [id |-> 101, walletId |-> "wa-1", txHash |-> "hA",
       amount |-> <<"2","5","0","0","0","0","0","0">>,
       contract |-> "0xA0B8", direction |-> "Inbound"] }

\* The checks of handleInboundTransfer without the lookup of an existing
\* transaction by tx_hash
DepositLookupNoHashCheck(ev) ==
    IF ev.direction # "Inbound" THEN "NotInbound"
    ELSE IF WalletsByDfnsId(ev.walletId) = {} THEN "WalletNotFound"
    ELSE LET wallet == CHOOSE w \in WalletsByDfnsId(ev.walletId) : TRUE
             symbol == GetTokenSymbolFromContract(ev.contract, wallet.chainId)
         IN  IF symbol = "" THEN "UnknownToken"
             ELSE IF AmountCredits(ev.amount, symbol) <= 0
                  THEN "Dust"
             ELSE "ok"

\* The checks before the database transaction; "ok" when the deposit is
\* to be credited
DepositLookup(ev) ==
    IF ev.direction # "Inbound" THEN "NotInbound"
    ELSE IF WalletsByDfnsId(ev.walletId) = {} THEN "WalletNotFound"
    ELSE IF TxWithHashExists(ev.txHash) THEN "Duplicate"
    ELSE LET wallet == CHOOSE w \in WalletsByDfnsId(ev.walletId) : TRUE
             symbol == GetTokenSymbolFromContract(ev.contract, wallet.chainId)
         IN  IF symbol = "" THEN "UnknownToken"
             ELSE IF AmountCredits(ev.amount, symbol) <= 0
                  THEN "Dust"
             ELSE "ok"

\* handleInboundTransfer up to the database transaction
DepositCall(h, ev) ==
    /\ handlers[h].pc = "idle"
    /\ nOps < MaxOps
    /\ LET v == DepositLookup(ev) IN
       IF v # "ok"
       THEN /\ last' = Resp("Deposit", v)
            /\ UNCHANGED <<handlers, nOps>>
       ELSE LET wallet == CHOOSE w \in WalletsByDfnsId(ev.walletId) : TRUE
                symbol == GetTokenSymbolFromContract(ev.contract, wallet.chainId)
            IN  /\ handlers' = [handlers EXCEPT ![h] =
                      [Idle EXCEPT !.pc = "dep_user", !.userId = wallet.userId,
                                   !.amt = AmountCredits(ev.amount, symbol),
                                   !.hash = ev.txHash, !.dfnsId = ev.id]]
                /\ nOps' = nOps + 1
                /\ UNCHANGED last
    /\ UNCHANGED <<balance, requests, txs, transfers, refunds, today,
                   webhookSecret, conv, wallets>>

\* A notification of an inbound transfer reaches handleInboundTransfer
DepositStart(h) ==
    /\ \E ev \in InboundEvents : DepositCall(h, ev)
    /\ UNCHANGED delivery

\* dbTx := db.Begin(); dbTx.Create(&tx); dbTx.First(&user, wallet.UserID)
DepositReadUser(h) ==
    /\ handlers[h].pc = "dep_user"
    /\ handlers' = [handlers EXCEPT ![h].pc = "dep_commit",
                                    ![h].bal = balance[handlers[h].userId]]
    /\ UNCHANGED <<balance, requests, txs, transfers, last, nOps, refunds,
                   today, webhookSecret, conv, wallets,
                   delivery>>

\* dbTx.Save(&user); dbTx.Commit(): the transaction row and the balance
\* become visible together
DepositCommit(h) ==
    /\ handlers[h].pc = "dep_commit"
    /\ LET hd == handlers[h] IN
       \E dbOk \in BOOLEAN :
         IF dbOk
         THEN /\ txs' = Append(txs,
                     [type |-> TxTypeDeposit, userId |-> hd.userId,
                      status |-> TxStatusCompleted, credits |-> hd.amt,
                      txHash |-> hd.hash, dfnsId |-> hd.dfnsId])
              /\ balance' = [balance EXCEPT ![hd.userId] = hd.bal + hd.amt]
              /\ refunds' = [refunds EXCEPT !.byFailed = Append(@, 0)]
              /\ last' = Resp("Deposit", "Credited")
         ELSE /\ UNCHANGED <<txs, balance, refunds>>
              /\ last' = Resp("Deposit", "DbError")
    /\ handlers' = [handlers EXCEPT ![h] = Idle]
    /\ UNCHANGED <<requests, transfers, nOps, today, webhookSecret, conv, wallets,
                   delivery>>

----------------------------------------------------------------------------
\* Transfer-outcome webhooks: handleTransferCompleted / handleTransferFailed

\* Outcome notifications: the custody id of a transfer the service was asked
\* to make, and for Completed the hash of the on-chain transaction
OutcomeIds == 1..Len(transfers)
OutcomeHashes == {"hW", "hA"}

\* A lookup that falls back on every row when none has the id
TxIdsByDfnsIdOrAny(id) ==
    IF \E i \in 1..Len(txs) : txs[i].dfnsId = id
    THEN {i \in 1..Len(txs) : txs[i].dfnsId = id}
    ELSE 1..Len(txs)
\* db.Where("dfns_tx_id = ?", id).First(&tx): the row with the lowest id
TxIdsByDfnsId(id) == {i \in 1..Len(txs) : txs[i].dfnsId = id}
Min(S) == CHOOSE x \in S : \A y \in S : x <= y

\* db.Where("transaction_id = ?", tid).First(&withdrawalReq)
RequestIdsByTxId(tid) == {i \in 1..Len(requests) : requests[i].txId = tid}

\* Finds the transaction and saves it as COMPLETED with the hash; when the
\* Save fails the handler logs and returns
CompletedCall(h, id, hash) ==
    /\ handlers[h].pc = "idle"
    /\ nOps < MaxOps
    /\ \E dbOk \in BOOLEAN :
         IF TxIdsByDfnsId(id) = {}
         THEN /\ last' = Resp("Completed", "TxNotFound")
              /\ UNCHANGED <<handlers, txs, nOps>>
         ELSE IF ~dbOk
         THEN /\ last' = Resp("Completed", "DbError")
              /\ UNCHANGED <<handlers, txs, nOps>>
         ELSE LET tid == Min(TxIdsByDfnsId(id)) IN
              /\ txs' = [txs EXCEPT ![tid].status = TxStatusCompleted,
                                    ![tid].txHash = hash]
              /\ nOps' = nOps + 1
              /\ IF txs[tid].type = TxTypeWithdrawal
                 THEN /\ handlers' = [handlers EXCEPT ![h] =
                            [Idle EXCEPT !.pc = "comp_find", !.tid = tid]]
                      /\ UNCHANGED last
                 ELSE /\ last' = Resp("Completed", "Done")
                      /\ UNCHANGED handlers
    /\ UNCHANGED <<balance, requests, transfers, refunds, today,
                   webhookSecret, conv, wallets>>

\* A Completed notification reaches handleTransferCompleted
CompletedStart(h) ==
    /\ \E id \in OutcomeIds, hash \in OutcomeHashes : CompletedCall(h, id, hash)
    /\ UNCHANGED delivery

\* Looks the withdrawal request up by transaction_id
CompletedFindReq(h) ==
    /\ handlers[h].pc = "comp_find"
    /\ LET found == RequestIdsByTxId(handlers[h].tid) IN
       IF found = {}
       THEN /\ handlers' = [handlers EXCEPT ![h] = Idle]
            /\ last' = Resp("Completed", "Done")
       ELSE /\ handlers' = [handlers EXCEPT ![h].pc = "comp_save",
                                           ![h].rid = Min(found),
                                           ![h].req = requests[Min(found)]]
            /\ UNCHANGED last
    /\ UNCHANGED <<balance, requests, txs, transfers, nOps, refunds,
                   today, webhookSecret, conv, wallets,
                   delivery>>

\* A Completed handler that writes the status of the Failed handler
CompletedRowMarkedFailed(loaded) == [loaded EXCEPT !.status = TxStatusFailed]
\* The row db.Save(&withdrawalReq) writes on a Completed outcome
CompletedRow(loaded) == [loaded EXCEPT !.status = TxStatusCompleted]

\* db.Save(&withdrawalReq) with status COMPLETED; its error is not looked at
CompletedSaveReq(h) ==
    /\ handlers[h].pc = "comp_save"
    /\ LET hd == handlers[h] IN
       \E dbOk \in BOOLEAN :
         IF dbOk
         THEN requests' = [requests EXCEPT ![hd.rid] = CompletedRow(hd.req)]
         ELSE UNCHANGED requests
    /\ handlers' = [handlers EXCEPT ![h] = Idle]
    /\ last' = Resp("Completed", "Done")
    /\ UNCHANGED <<balance, txs, transfers, nOps, refunds,
                   today, webhookSecret, conv, wallets,
                   delivery>>

\* Finds the transaction and saves it as FAILED; when the Save fails the
\* handler logs and returns
FailedCall(h, id) ==
    /\ handlers[h].pc = "idle"
    /\ nOps < MaxOps
    /\ \E dbOk \in BOOLEAN :
         IF TxIdsByDfnsId(id) = {}
         THEN /\ last' = Resp("Failed", "TxNotFound")
              /\ UNCHANGED <<handlers, txs, nOps>>
         ELSE IF ~dbOk
         THEN /\ last' = Resp("Failed", "DbError")
              /\ UNCHANGED <<handlers, txs, nOps>>
         ELSE LET tid == Min(TxIdsByDfnsId(id)) IN
              /\ txs' = [txs EXCEPT ![tid].status = TxStatusFailed]
              /\ nOps' = nOps + 1
              /\ IF txs[tid].type = TxTypeWithdrawal
                 THEN /\ handlers' = [handlers EXCEPT ![h] =
                            [Idle EXCEPT !.pc = "fail_user", !.tid = tid,
                                         !.tx = txs[tid]]]
                      /\ UNCHANGED last
                 ELSE /\ last' = Resp("Failed", "Done")
                      /\ UNCHANGED handlers
    /\ UNCHANGED <<balance, requests, transfers, refunds, today,
                   webhookSecret, conv, wallets>>

\* A Failed notification reaches handleTransferFailed
FailedStart(h) ==
    /\ \E id \in OutcomeIds : FailedCall(h, id)
    /\ UNCHANGED delivery

\* db.First(&user, tx.UserID)
FailedReadUser(h) ==
    /\ handlers[h].pc = "fail_user"
    /\ handlers' = [handlers EXCEPT ![h].pc = "fail_credit",
                                    ![h].bal = balance[handlers[h].tx.userId]]
    /\ UNCHANGED <<balance, requests, txs, transfers, last, nOps, refunds,
                   today, webhookSecret, conv, wallets,
                   delivery>>

\* A Failed handler that stores the balance it loaded, without the refund
RefundedBalanceForgotten(loaded, credits) == loaded
\* The value the Failed handler stores into account_balance
RefundedBalance(loaded, credits) == loaded + credits

\* user.AccountBalance += tx.AmountCredits; db.Save(&user); its error is not
\* looked at
FailedSaveUser(h) ==
    /\ handlers[h].pc = "fail_credit"
    /\ LET hd == handlers[h] IN
       \E dbOk \in BOOLEAN :
         IF dbOk
         THEN /\ balance' = [balance EXCEPT ![hd.tx.userId] =
                                RefundedBalance(hd.bal, hd.tx.credits)]
              /\ refunds' = [refunds EXCEPT !.byFailed[hd.tid] = @ + hd.tx.credits]
         ELSE UNCHANGED <<balance, refunds>>
    /\ handlers' = [handlers EXCEPT ![h].pc = "fail_find"]
    /\ UNCHANGED <<requests, txs, transfers, last, nOps,
                   today, webhookSecret, conv, wallets,
                   delivery>>

\* Looks the withdrawal request up by transaction_id
FailedFindReq(h) ==
    /\ handlers[h].pc = "fail_find"
    /\ LET found == RequestIdsByTxId(handlers[h].tid) IN
       IF found = {}
       THEN /\ handlers' = [handlers EXCEPT ![h] = Idle]
            /\ last' = Resp("Failed", "Done")
       ELSE /\ handlers' = [handlers EXCEPT ![h].pc = "fail_save",
                                           ![h].rid = Min(found),
                                           ![h].req = requests[Min(found)]]
            /\ UNCHANGED last
    /\ UNCHANGED <<balance, requests, txs, transfers, nOps, refunds,
                   today, webhookSecret, conv, wallets,
                   delivery>>

\* The row db.Save(&withdrawalReq) writes on a Failed outcome
FailedRow(loaded) ==
    [loaded EXCEPT !.status = TxStatusFailed,
                   !.err = "Transfer failed on blockchain"]

\* db.Save(&withdrawalReq) with status FAILED; its error is not looked at
FailedSaveReq(h) ==
    /\ handlers[h].pc = "fail_save"
    /\ LET hd == handlers[h] IN
       \E dbOk \in BOOLEAN :
         IF dbOk
         THEN requests' = [requests EXCEPT ![hd.rid] = FailedRow(hd.req)]
         ELSE UNCHANGED requests
    /\ handlers' = [handlers EXCEPT ![h] = Idle]
    /\ last' = Resp("Failed", "Done")
    /\ UNCHANGED <<balance, txs, transfers, nOps, refunds,
                   today, webhookSecret, conv, wallets,
                   delivery>>

----------------------------------------------------------------------------
\* One statement of the handler running in worker h
Step(h) ==
    \/ InitiateStart(h)
    \/ InitiateLimit(h)
    \/ InitiateCommit(h)
    \/ ApproveStart(h)
    \/ ApproveCreateTx(h)
    \/ ApproveSave(h)
    \/ RejectStart(h)
    \/ RejectReadUser(h)
    \/ RejectCommit(h)
    \/ DepositStart(h)
    \/ DepositReadUser(h)
    \/ DepositCommit(h)
    \/ CompletedStart(h)
    \/ CompletedFindReq(h)
    \/ CompletedSaveReq(h)
    \/ FailedStart(h)
    \/ FailedReadUser(h)
    \/ FailedSaveUser(h)
    \/ FailedFindReq(h)
    \/ FailedSaveReq(h)

Next == \E h \in Handlers : Step(h)

Spec == Init /\ [][Next]_vars

\* Sequential delivery: a handler starts only when no handler is in flight,
\* so every request and notification is processed to its end before the
\* next one is taken.
AllIdle == \A h \in Handlers : handlers[h].pc = "idle"

SeqInitiateStart(h) == AllIdle /\ InitiateStart(h)
SeqApproveStart(h) == AllIdle /\ ApproveStart(h)
SeqRejectStart(h) == AllIdle /\ RejectStart(h)
SeqDepositStart(h) == AllIdle /\ DepositStart(h)
SeqCompletedStart(h) == AllIdle /\ CompletedStart(h)
SeqFailedStart(h) == AllIdle /\ FailedStart(h)

NextSeq ==
    \E h \in Handlers :
        \/ SeqInitiateStart(h)
        \/ InitiateLimit(h)
        \/ InitiateCommit(h)
        \/ SeqApproveStart(h)
        \/ ApproveCreateTx(h)
        \/ ApproveSave(h)
        \/ SeqRejectStart(h)
        \/ RejectReadUser(h)
        \/ RejectCommit(h)
        \/ SeqDepositStart(h)
        \/ DepositReadUser(h)
        \/ DepositCommit(h)
        \/ SeqCompletedStart(h)
        \/ CompletedFindReq(h)
        \/ CompletedSaveReq(h)
        \/ SeqFailedStart(h)
        \/ FailedReadUser(h)
        \/ FailedSaveUser(h)
        \/ FailedFindReq(h)
        \/ FailedSaveReq(h)

SpecSeq == Init /\ [][NextSeq]_vars

----------------------------------------------------------------------------
\* The conversion utilities called on their own: each call leaves its
\* arguments and its result in conv.

MaxRaw == 12       \* raw amounts 0..MaxRaw, besides the named ones
MaxCredits == 10   \* credits 0..MaxCredits, besides the named ones

DecimalsInputs == {0, 2, 6, 18}
SymbolInputs == {"USDC", "USDT", "DAI", "usdc", ""}

\* Raw amounts: the small ones, amounts around one credit of a 6-decimal
\* token, an amount with leading zeros, amounts above 2^64 whose credits
\* fit an int64, the largest amount of a 6-decimal token whose credits fit,
\* and the first whose credits do not
RawAmountInputs ==
    {NatString(n) : n \in 0..MaxRaw} \cup
    { <<"9","9","9","9","9","9">>,
      <<"1","0","0","0","0","0","0">>,
      <<"1","5","0","0","0","0","0">>,
      <<"0","0","1","5","0","0","0","0","0">>,
      <<"2","5","0","0","0","0","0","0">>,
      Two64,
      Two64 \o <<"7">>,
      BigSub(Two63, <<"1">>) \o <<"9","9","9","9","9","9">>,
      Two63 \o Zeros(6) }

CreditsInputs == (0..MaxCredits) \cup {30, 10000, 2147483647}

ConvertToCreditsCall ==
    /\ \E rawAmount \in RawAmountInputs, decimals \in DecimalsInputs :
         conv' = [fn |-> "ConvertToCredits", args |-> <<rawAmount, decimals>>,
                  out |-> ConvertToCredits(rawAmount, decimals)]
    /\ UNCHANGED <<balance, requests, txs, transfers, handlers, last, nOps,
                   refunds, today, webhookSecret, wallets, delivery>>

CreditsToTokenAmountCall ==
    /\ \E credits \in CreditsInputs, decimals \in DecimalsInputs :
         conv' = [fn |-> "CreditsToTokenAmount", args |-> <<credits, decimals>>,
                  out |-> CreditsToTokenAmount(credits, decimals)]
    /\ UNCHANGED <<balance, requests, txs, transfers, handlers, last, nOps,
                   refunds, today, webhookSecret, wallets, delivery>>

\* The amount of an outbound transfer read back as credits
RoundTripCall ==
    /\ conv.fn = "CreditsToTokenAmount"
    /\ conv' = [fn |-> "RoundTrip", args |-> conv.args,
                out |-> ConvertToCredits(conv.out, conv.args[2])]
    /\ UNCHANGED <<balance, requests, txs, transfers, handlers, last, nOps,
                   refunds, today, webhookSecret, wallets, delivery>>

GetTokenDecimalsCall ==
    /\ \E symbol \in SymbolInputs :
         conv' = [fn |-> "GetTokenDecimals", args |-> <<symbol>>,
                  out |-> GetTokenDecimals(symbol)]
    /\ UNCHANGED <<balance, requests, txs, transfers, handlers, last, nOps,
                   refunds, today, webhookSecret, wallets, delivery>>

NextConv ==
    \/ ConvertToCreditsCall
    \/ CreditsToTokenAmountCall
    \/ RoundTripCall
    \/ GetTokenDecimalsCall

SpecConv == Init /\ [][NextConv]_vars

----------------------------------------------------------------------------
\* The daily limit at work: user 1 on day 1 with a history of requests, some
\* of yesterday (day 0), some REJECTED, the others adding up to just under
\* the daily limit; Initiate calls, the rejection of one of today's PENDING
\* requests, and the passing of midnight.

MaxDay == 2      \* the last day the clock reaches

DailyAmountInputs == {5, 10, 20, 90}
DailyLastAmounts == {3980, 3990}

HistReq(amount, status, day, txId) ==
    [userId |-> 1, chainId |-> 1, chainName |-> "ethereum", token |-> "USDC",
     toAddress |-> "0xEvmAddress", amount |-> amount,
     status |-> status, txId |-> txId,
     err |-> IF status = TxStatusRejected THEN "bad address"
             ELSE IF status = TxStatusFailed THEN "Transfer failed on blockchain"
             ELSE "",
     day |-> day]

\* The amount of the history's requests that went to the custody service
\* (their raw amount, 2,000 * 10^6, fits a 32-bit integer)
HistSent == 2000

HistTx(status, hash, dfnsId) ==
    [type |-> TxTypeWithdrawal, userId |-> 1, status |-> status,
     credits |-> HistSent, txHash |-> hash, dfnsId |-> dfnsId]

\* Ten requests: one COMPLETED yesterday, one REJECTED today, and today's
\* APPROVED, COMPLETED and FAILED ones of 2,000 each, four PENDING ones of
\* 10,000 each, and a last PENDING one
DailyHistory(lastAmount) ==
    << HistReq(HistSent, TxStatusCompleted, 0, 1),
       HistReq(MaxWithdrawalAmount, TxStatusRejected, 1, 0),
       HistReq(HistSent, TxStatusApproved, 1, 2),
       HistReq(HistSent, TxStatusCompleted, 1, 3),
       HistReq(HistSent, TxStatusFailed, 1, 4),
       HistReq(MaxWithdrawalAmount, TxStatusPending, 1, 0),
       HistReq(MaxWithdrawalAmount, TxStatusPending, 1, 0),
       HistReq(MaxWithdrawalAmount, TxStatusPending, 1, 0),
       HistReq(MaxWithdrawalAmount, TxStatusPending, 1, 0),
       HistReq(lastAmount, TxStatusPending, 1, 0) >>

DailyHistoryTxs ==
    << HistTx(TxStatusCompleted, "hY", 1), HistTx(TxStatusApproved, "", 2),
       HistTx(TxStatusCompleted, "hW", 3), HistTx(TxStatusFailed, "", 4) >>

DailyHistoryTransfers ==
    LET raw == CreditsToTokenAmount(HistSent, GetTokenDecimals("USDC"))
    IN  << [rid |-> 1, raw |-> raw], [rid |-> 3, raw |-> raw],
           [rid |-> 4, raw |-> raw], [rid |-> 5, raw |-> raw] >>

InitDaily ==
    /\ balance = InitBalance
    /\ requests \in {DailyHistory(a) : a \in DailyLastAmounts}
    /\ txs = DailyHistoryTxs
    /\ transfers = DailyHistoryTransfers
    /\ handlers = [h \in Handlers |-> Idle]
    /\ last = Resp("none", "none")
    /\ nOps = 0
    /\ refunds = [byReject |-> [i \in 1..10 |->
                                  IF i = 2 THEN MaxWithdrawalAmount ELSE 0],
                  byFailed |-> <<0, 0, 0, HistSent>>]
    /\ today = 1
    /\ webhookSecret = ConfiguredSecret
    /\ conv = NoConv
    /\ wallets = Wallets
    /\ delivery = NoDelivery

DailyInitiateStart(h) ==
    \E amount \in DailyAmountInputs :
        InitiateCall(h, 1, "ethereum", "USDC", "0xEvmAddress", amount)

\* The admin rejects the first of today's PENDING requests of the history
DailyRejectStart(h) == RejectCall(h, 6, "bad address")

\* Midnight UTC passes: time.Now().Truncate(24 * time.Hour) moves on
AdvanceDay ==
    /\ today < MaxDay
    /\ today' = today + 1
    /\ UNCHANGED <<balance, requests, txs, transfers, handlers, last, nOps,
                   refunds, webhookSecret, conv, wallets, delivery>>

NextDaily ==
    \/ \E h \in Handlers :
          \/ DailyInitiateStart(h)
          \/ InitiateLimit(h)
          \/ InitiateCommit(h)
          \/ DailyRejectStart(h)
          \/ RejectReadUser(h)
          \/ RejectCommit(h)
    \/ AdvanceDay

SpecDaily == InitDaily /\ [][NextDaily]_vars

----------------------------------------------------------------------------
\* The webhook endpoint: DFNSWebhookHandler in front of the three processors,
\* started from a ledger that holds one APPROVED withdrawal of user 1

EventWalletCreated == "wallet.created"
EventTransferInbound == "wallet.transfer.inbound"
EventTransferCompleted == "wallet.transfer.completed"
EventTransferFailed == "wallet.transfer.failed"
EventTransferConfirmed == "wallet.transfer.confirmed"

\* hex(HMAC-SHA256(secret, payload)): a value that two (payload, secret)
\* pairs share only when they are equal
Hmac(payload, secret) == <<"hmac", payload, secret>>

\* The X-DFNS-Signature header is absent
NoSignature == <<>>

VerifyWebhookSignature(payload, signature, secret) ==
    IF secret = "" \/ signature = NoSignature
    THEN FALSE
    ELSE signature = Hmac(payload, secret)

\* A body that reads and unmarshals, of the kind and with the data given
Body(kind, data) ==
    [read |-> TRUE, parses |-> TRUE, kind |-> kind, dataParses |-> TRUE,
     data |-> data]

\* An inbound transfer of 25 USDC to the wallet of user 1
GoodDeposit == CHOOSE ev \in InboundEvents : TRUE

\* A wallet of user 2 on Base, chain 8453 of supported_chains, which has a
\* USDC contract and no USDT contract
BaseWallet == [id |-> 2, userId |-> 2, dfnsWalletId |-> "wa-2",
               chainId |-> 8453, chainName |-> "base",
               address |-> "0xWallet2", isActive |-> TRUE]

\* An inbound transfer of the chain's native coin to that wallet: the data
\* carries no contract
NativeDeposit ==
    [id |-> 102, walletId |-> "wa-2", txHash |-> "hN",
     amount |-> <<"3","0","0","0","0","0","0">>,
     contract |-> "", direction |-> "Inbound"]

\* Inbound-transfer data: the good one, and ones that differ from it in the
\* direction, the wallet, the contract or the amount; and the transfer to
\* the wallet of user 1 made by the on-chain transaction hW, the one that
\* carries out the withdrawal of the history
DepositEvents ==
    { GoodDeposit,
      [GoodDeposit EXCEPT !.direction = "Outbound"],
      [GoodDeposit EXCEPT !.walletId = "wa-9"],
      [GoodDeposit EXCEPT !.contract = "0xBEEF"],
      [GoodDeposit EXCEPT !.contract = "0xdac1",
                          !.amount = <<"1","5","0","0","0","0","0">>],
      [GoodDeposit EXCEPT !.amount = <<"9","9","9","9","9","9">>],
      [GoodDeposit EXCEPT !.amount = <<"0">>],
      [GoodDeposit EXCEPT !.id = 103, !.txHash = "hW"],
      NativeDeposit }

\* The custody id of a transfer this deployment never asked for
ForeignTransferId == 999

\* Transfer-outcome data: of the transfer of the history and of a foreign one
OutcomeEvents ==
    { [NoEvent EXCEPT !.id = id, !.txHash = "hW"] : id \in {1, ForeignTransferId} }

\* The bodies a sender may post
WebhookBodies ==
    { Body(EventTransferInbound, ev) : ev \in DepositEvents }
    \cup { Body(EventTransferConfirmed, GoodDeposit) }
    \cup { Body(kind, ev) : kind \in {EventTransferCompleted, EventTransferFailed},
                           ev \in OutcomeEvents }
    \cup { Body(EventWalletCreated, NoEvent),
           [Body(EventTransferInbound, NoEvent) EXCEPT !.dataParses = FALSE],
           [NoBody EXCEPT !.read = TRUE],
           NoBody }

\* A secret that is not the deployment's
ForeignSecret == "guess"

\* The signature headers a sender may attach to a body: none, the HMAC under
\* the deployment's secret, the HMAC under another secret
SignatureInputs(body) ==
    {NoSignature, Hmac(body, ConfiguredSecret), Hmac(body, ForeignSecret)}

\* The response is written: its status code, with what was delivered
WebhookReply(status, body, verified) ==
    delivery' = [turn |-> 1 - delivery.turn, body |-> body,
                 verified |-> verified, status |-> status]

\* The handler returns without calling a processor, or the processor
\* returns at its parse error
WebhookDrop(res) ==
    /\ last' = Resp("Webhook", res)
    /\ UNCHANGED <<balance, requests, txs, transfers, handlers, nOps, refunds,
                   today, webhookSecret, conv, wallets>>

\* The dispatch on event.Kind
WebhookDispatch(h, body) ==
    IF body.kind \in {EventTransferInbound, EventTransferConfirmed}
    THEN IF body.dataParses THEN DepositCall(h, body.data)
                            ELSE WebhookDrop("BadData")
    ELSE IF body.kind = EventTransferCompleted
    THEN IF body.dataParses
         THEN CompletedCall(h, body.data.id, body.data.txHash)
         ELSE WebhookDrop("BadData")
    ELSE IF body.kind = EventTransferFailed
    THEN IF body.dataParses THEN FailedCall(h, body.data.id)
                            ELSE WebhookDrop("BadData")
    ELSE WebhookDrop("Unhandled")

\* POST /webhooks/dfns: reads the body, verifies the signature when a secret
\* is configured, parses the event, hands it to its processor and answers 200
DFNSWebhookHandler(h, body, signature) ==
    /\ handlers[h].pc = "idle"
    /\ LET verified == VerifyWebhookSignature(body, signature, webhookSecret)
       IN  IF ~body.read
           THEN WebhookReply(400, body, verified) /\ WebhookDrop("ReadError")
           ELSE IF webhookSecret # "" /\ ~verified
           THEN WebhookReply(401, body, verified) /\ WebhookDrop("Unauthorized")
           ELSE IF ~body.parses
           THEN WebhookReply(400, body, verified) /\ WebhookDrop("BadRequest")
           ELSE WebhookReply(200, body, verified) /\ WebhookDispatch(h, body)

WebhookStart(h) ==
    /\ AllIdle
    /\ \E body \in WebhookBodies :
          \E signature \in SignatureInputs(body) :
              DFNSWebhookHandler(h, body, signature)

\* The deployments: DFNS_WEBHOOK_SECRET set, or left unset
SecretInputs == {ConfiguredSecret, ""}

InitWebhook ==
    /\ balance = InitBalance
    /\ requests = << HistReq(HistSent, TxStatusApproved, 0, 1) >>
    /\ txs = << HistTx(TxStatusApproved, "", 1) >>
    /\ transfers = << [rid |-> 1,
                       raw |-> CreditsToTokenAmount(HistSent,
                                                    GetTokenDecimals("USDC"))] >>
    /\ handlers = [h \in Handlers |-> Idle]
    /\ last = Resp("none", "none")
    /\ nOps = 0
    /\ refunds = [byReject |-> <<0>>, byFailed |-> <<0>>]
    /\ today = 0
    /\ webhookSecret \in SecretInputs
    /\ conv = NoConv
    /\ wallets = Wallets \cup {BaseWallet}
    /\ delivery = NoDelivery

NextWebhook ==
    \E h \in Handlers :
        \/ WebhookStart(h)
        \/ DepositReadUser(h)
        \/ DepositCommit(h)
        \/ CompletedFindReq(h)
        \/ CompletedSaveReq(h)
        \/ FailedReadUser(h)
        \/ FailedSaveUser(h)
        \/ FailedFindReq(h)
        \/ FailedSaveReq(h)

SpecWebhook == InitWebhook /\ [][NextWebhook]_vars

----------------------------------------------------------------------------
\* Deposit addresses: GetDepositAddressHandler, which creates the wallet of
\* a user on a chain at the first request for its address

\* GetDFNSNetwork: the custody service's name of the chain, "" when it has
\* none
GetDFNSNetwork(chainName) ==
    CASE chainName = "ethereum"         -> "EthereumMainnet"
      [] chainName = "ethereum-sepolia" -> "EthereumSepolia"
      [] chainName = "tron"             -> "Tron"
      [] chainName = "tron-nile"        -> "TronNile"
      [] OTHER                          -> ""

\* The ids and addresses the custody service gives to the wallets it
\* creates, in the order of their creation
CustodyWalletIds == <<"wa-11", "wa-12", "wa-13", "wa-14", "wa-15", "wa-16">>
CustodyAddresses == <<"0xNew1", "0xNew2", "0xNew3", "0xNew4", "0xNew5", "0xNew6">>

\* db.Where("user_id = ? AND chain_name = ? AND is_active = ?", ...)
ActiveWallets(userId, chainName) ==
    {w \in wallets : w.userId = userId /\ w.chainName = chainName /\ w.isActive}

\* The path parameter of the request
WalletChainInputs == {"ethereum", "tron", "solana"}

\* Validates the chain and looks the active wallet up; answers with its
\* address, or goes on to create one
GetDepositAddressCall(h, u, chainName) ==
    /\ handlers[h].pc = "idle"
    /\ IF ~IsValidChainName(chainName)
       THEN /\ last' = Resp("DepositAddress", "InvalidChain")
            /\ UNCHANGED handlers
       ELSE IF ActiveWallets(u, chainName) # {}
       THEN /\ last' = Resp("DepositAddress",
                            (CHOOSE w \in ActiveWallets(u, chainName) :
                               \A v \in ActiveWallets(u, chainName) :
                                  w.id <= v.id).address)
            /\ UNCHANGED handlers
       ELSE IF GetDFNSNetwork(chainName) = ""
               \/ chainName \notin ChainInfoNames
       THEN /\ last' = Resp("DepositAddress", "Failed")
            /\ UNCHANGED handlers
       ELSE /\ handlers' = [handlers EXCEPT ![h] =
                  [Idle EXCEPT !.pc = "wal_custody", !.userId = u,
                               !.chainName = chainName]]
            /\ UNCHANGED last
    /\ UNCHANGED <<balance, requests, txs, transfers, nOps, refunds, today,
                   webhookSecret, conv, wallets, delivery>>

GetDepositAddressStart(h) ==
    \E u \in Users, chainName \in WalletChainInputs :
        GetDepositAddressCall(h, u, chainName)

\* dfnsClient.CreateWallet: the custody service creates a wallet and returns
\* its id and address, or the call fails
CreateWalletAtCustody(h) ==
    /\ handlers[h].pc = "wal_custody"
    /\ nOps < MaxOps
    /\ \E ok \in BOOLEAN :
         IF ok
         THEN /\ handlers' = [handlers EXCEPT ![h].pc = "wal_create",
                                              ![h].dfnsId = nOps + 1]
              /\ nOps' = nOps + 1
              /\ UNCHANGED last
         ELSE /\ handlers' = [handlers EXCEPT ![h] = Idle]
              /\ last' = Resp("DepositAddress", "Failed")
              /\ UNCHANGED nOps
    /\ UNCHANGED <<balance, requests, txs, transfers, refunds, today,
                   webhookSecret, conv, wallets, delivery>>

\* db.Create(wallet): the row of the new wallet; dfns_wallet_id is unique
CreateWalletRow(h) ==
    /\ handlers[h].pc = "wal_create"
    /\ LET row == [id |-> Cardinality(wallets) + 1,
                   userId |-> handlers[h].userId,
                   dfnsWalletId |-> CustodyWalletIds[handlers[h].dfnsId],
                   chainId |-> ChainInfoChainID(handlers[h].chainName),
                   chainName |-> handlers[h].chainName,
                   address |-> CustodyAddresses[handlers[h].dfnsId],
                   isActive |-> TRUE]
       IN  \E dbOk \in BOOLEAN :
             IF dbOk /\ WalletsByDfnsId(row.dfnsWalletId) = {}
             THEN /\ wallets' = wallets \cup {row}
                  /\ last' = Resp("DepositAddress", row.address)
             ELSE /\ last' = Resp("DepositAddress", "Failed")
                  /\ UNCHANGED wallets
    /\ handlers' = [handlers EXCEPT ![h] = Idle]
    /\ UNCHANGED <<balance, requests, txs, transfers, nOps, refunds, today,
                   webhookSecret, conv, delivery>>

NextWallet ==
    \E h \in Handlers :
        \/ GetDepositAddressStart(h)
        \/ CreateWalletAtCustody(h)
        \/ CreateWalletRow(h)

SpecWallet == Init /\ [][NextWallet]_vars

----------------------------------------------------------------------------
\* Outcome notifications for an inbound transfer: the deposit of 25 USDC to
\* user 1, and Completed and Failed notifications that carry its custody id

\* Bodies of the notifications about the inbound transfer
DepositOutcomeBodies ==
    { Body(EventTransferInbound, GoodDeposit),
      Body(EventTransferConfirmed, GoodDeposit),
      Body(EventTransferCompleted,
           [NoEvent EXCEPT !.id = GoodDeposit.id, !.txHash = "hZ"]),
      Body(EventTransferCompleted,
           [NoEvent EXCEPT !.id = GoodDeposit.id, !.txHash = GoodDeposit.txHash]),
      Body(EventTransferFailed, [NoEvent EXCEPT !.id = GoodDeposit.id]) }
    \cup { Body(kind, ev) : kind \in {EventTransferCompleted, EventTransferFailed},
                           ev \in OutcomeEvents }

\* The custody service posts one of them, signed with the shared secret
DepositOutcomeStart(h) ==
    /\ AllIdle
    /\ \E body \in DepositOutcomeBodies :
          DFNSWebhookHandler(h, body, Hmac(body, webhookSecret))

NextReconcile ==
    \E h \in Handlers :
        \/ DepositOutcomeStart(h)
        \/ DepositReadUser(h)
        \/ DepositCommit(h)
        \/ CompletedFindReq(h)
        \/ CompletedSaveReq(h)
        \/ FailedReadUser(h)
        \/ FailedSaveUser(h)
        \/ FailedFindReq(h)
        \/ FailedSaveReq(h)

SpecReconcile == InitWebhook /\ [][NextReconcile]_vars

----------------------------------------------------------------------------
\* Approval and the outcome of its transfer: one PENDING request of user 1,
\* Approve calls on it, and the notification the custody service sends for
\* a transfer it was asked to make.  The endpoint acknowledges the
\* notification, so the service sends it once.

\* The amounts of the PENDING request
LiveAmounts == {30, 80}

InitLive ==
    \E amount \in LiveAmounts :
        /\ balance = [InitBalance EXCEPT ![1] = @ - amount]
        /\ requests = << HistReq(amount, TxStatusPending, 0, 0) >>
        /\ txs = <<>>
        /\ transfers = <<>>
        /\ handlers = [h \in Handlers |-> Idle]
        /\ last = Resp("none", "none")
        /\ nOps = 0
        /\ refunds = [byReject |-> <<0>>, byFailed |-> <<>>]
        /\ today = 0
        /\ webhookSecret = ConfiguredSecret
        /\ conv = NoConv
        /\ wallets = Wallets
        /\ delivery = NoDelivery

\* The custody service posts the Completed or the Failed notification of a
\* transfer, signed with the shared secret
OutcomeNotify(h) ==
    /\ delivery = NoDelivery
    /\ \E t \in 1..Len(transfers) :
         \E kind \in {EventTransferCompleted, EventTransferFailed} :
            LET body == Body(kind, [NoEvent EXCEPT !.id = t, !.txHash = "hW"])
            IN  DFNSWebhookHandler(h, body, Hmac(body, webhookSecret))

\* The statements a started handler goes on to execute
HandlerContinues(h) ==
    \/ ApproveCreateTx(h)
    \/ ApproveSave(h)
    \/ CompletedFindReq(h)
    \/ CompletedSaveReq(h)
    \/ FailedReadUser(h)
    \/ FailedSaveUser(h)
    \/ FailedFindReq(h)
    \/ FailedSaveReq(h)

NextLive ==
    \E h \in Handlers :
        \/ ApproveStart(h)
        \/ OutcomeNotify(h)
        \/ ApproveCreateTx(h)
        \/ ApproveSave(h)
        \/ CompletedFindReq(h)
        \/ CompletedSaveReq(h)
        \/ FailedReadUser(h)
        \/ FailedSaveUser(h)
        \/ FailedFindReq(h)
        \/ FailedSaveReq(h)

\* Every started handler runs to its end
SpecLive ==
    /\ InitLive
    /\ [][NextLive]_vars
    /\ \A h \in Handlers : WF_vars(HandlerContinues(h))

----------------------------------------------------------------------------
\* Quantities the properties are stated in

ReqIds == 1..Len(requests)
TxIds == 1..Len(txs)

\* Sum of the credits of the user's COMPLETED deposit transactions
DepositCredits(u) ==
    SumSeq([i \in TxIds |->
              IF txs[i].userId = u /\ txs[i].type = TxTypeDeposit
                 /\ txs[i].status = TxStatusCompleted
              THEN txs[i].credits ELSE 0])

\* Sum of the amounts of the user's requests whose status is in statuses
RequestedIn(u, statuses) ==
    SumSeq([i \in ReqIds |->
              IF requests[i].userId = u /\ requests[i].status \in statuses
              THEN requests[i].amount ELSE 0])

AllStatuses == {TxStatusPending, TxStatusApproved, TxStatusCompleted,
                TxStatusRejected, TxStatusFailed}

\* The step in which handler h commits Initiate's debit and insert
DebitStep(h) ==
    /\ handlers[h].pc = "init_commit"
    /\ Len(requests') = Len(requests) + 1

\* C1: in every reachable state every user's balance equals the initial
\* balance plus the COMPLETED deposit credits minus the amounts of the
\* user's PENDING, APPROVED and COMPLETED withdrawal requests.
C1_LedgerInvariant ==
    \A u \in Users :
        balance[u] = InitBalance[u] + DepositCredits(u)
                     - RequestedIn(u, {TxStatusPending, TxStatusApproved,
                                       TxStatusCompleted})

\* C2: a balance is never negative, and every debit is applied in a step in
\* which the balance covers the amount (the sufficiency check belongs to the
\* atomic unit of the debit).
C2_NeverNegativeCheckedDebit ==
    /\ [](\A u \in Users : balance[u] >= 0)
    /\ [][\A h \in Handlers :
            DebitStep(h) => balance[handlers[h].userId] >= handlers[h].amt]_vars

\* C3: Initiate calls for amounts the balance covers one at a time but not
\* together never all succeed: while a user has received no credit (no
\* deposit, no refund), the amounts of the user's requests sum to at most the
\* user's initial balance.
NoCredit(u) ==
    /\ \A i \in TxIds : txs[i].userId = u =>
           txs[i].type # TxTypeDeposit /\ refunds.byFailed[i] = 0
    /\ \A i \in ReqIds : requests[i].userId = u => refunds.byReject[i] = 0
C3_NoDoubleSpend ==
    \A u \in Users :
        NoCredit(u) => RequestedIn(u, AllStatuses) <= InitBalance[u]

\* C4: of the Approve and Reject calls on one request exactly one takes
\* effect: per request, the custody transfers initiated for it and the
\* refunds Reject gave for it number at most one together.
TransfersFor(id) == {t \in 1..Len(transfers) : transfers[t].rid = id}
RejectsOf(id) == refunds.byReject[id] \div requests[id].amount
C4_OneAdminActionWins ==
    \A id \in ReqIds : Cardinality(TransfersFor(id)) + RejectsOf(id) <= 1

\* C5: a request's status changes only along PENDING->APPROVED,
\* PENDING->REJECTED, APPROVED->COMPLETED, APPROVED->FAILED.
LegalTransitions ==
    { <<TxStatusPending, TxStatusApproved>>, <<TxStatusPending, TxStatusRejected>>,
      <<TxStatusApproved, TxStatusCompleted>>, <<TxStatusApproved, TxStatusFailed>> }
C5_StatusTransitions ==
    [][\A i \in ReqIds :
         \/ requests'[i].status = requests[i].status
         \/ <<requests[i].status, requests'[i].status>> \in LegalTransitions]_vars

\* C6: however often a Failed notification is delivered for a transfer, the
\* credits refunded for its transaction never exceed the withdrawal's
\* amountCredits (the refund happens once).
C6_FailedRefundsOnce ==
    \A i \in TxIds : refunds.byFailed[i] <= txs[i].credits

\* C7: when notifications are processed one after the other, the same deposit
\* notification delivered again leaves one DEPOSIT transaction for its txHash
\* and one credit: (a) no txHash ever has two DEPOSIT transactions; (b) a
\* delivery whose txHash already has a transaction is dropped before the
\* crediting transaction and changes neither balance nor ledger; (c) the
\* delivery that is credited adds its transaction and its credits, once, in
\* one step.
DepositTxsWithHash(hash) ==
    {i \in TxIds : txs[i].type = TxTypeDeposit /\ txs[i].txHash = hash}
DeliveredHashes == {ev.txHash : ev \in InboundEvents}
DepositProceeds(h) ==
    /\ handlers[h].pc = "idle"
    /\ handlers'[h].pc = "dep_user"
DepositCredited(h) ==
    /\ handlers[h].pc = "dep_commit"
    /\ txs' # txs
C7_DuplicateDepositDropped ==
    /\ [](\A hash \in DeliveredHashes :
            Cardinality(DepositTxsWithHash(hash)) <= 1)
    /\ [][\A h \in Handlers :
            /\ DepositProceeds(h) => ~TxWithHashExists(handlers'[h].hash)
            /\ DepositCredited(h) =>
                   /\ Len(txs') = Len(txs) + 1
                   /\ balance' = [balance EXCEPT ![handlers[h].userId] =
                                      @ + handlers[h].amt]]_vars

\* C7 witness: the same notification was delivered again after it had been
\* credited; one deposit transaction exists and was credited once.
C7_Witness ==
    /\ last = Resp("Deposit", "Duplicate")
    /\ AllIdle
    /\ Cardinality(DepositTxsWithHash("hA")) = 1
    /\ Len(requests) = 0
    /\ balance[1] = InitBalance[1] + 25

\* C8: for one inbound transfer (one custody id, one txHash), however its
\* notifications interleave, one CryptoTransaction is created and the
\* credits are added once.
DepositTxsOf(ev) ==
    {i \in TxIds : txs[i].type = TxTypeDeposit /\ txs[i].dfnsId = ev.id}
C8_ConcurrentDepositOnce ==
    \A ev \in InboundEvents : Cardinality(DepositTxsOf(ev)) <= 1

\* C9: at most one DEPOSIT transaction per txHash and at most one WITHDRAWAL
\* transaction per externalTransferId.
C9_UniqueIdempotencyKeys ==
    \A i, j \in TxIds :
        (i # j /\ txs[i].type = txs[j].type) =>
            /\ txs[i].type = TxTypeDeposit => txs[i].txHash # txs[j].txHash
            /\ txs[i].type = TxTypeWithdrawal => txs[i].dfnsId # txs[j].dfnsId

\* C10: the step that commits an Initiate call debits the amount from the
\* balance (balance after = balance before - amount) and adds one PENDING
\* request of that amount for the user, both in that one step; or (the
\* database transaction rolled back) changes neither.
C10_AtomicDebit ==
    [][\A h \in Handlers :
         handlers[h].pc = "init_commit" /\ handlers'[h].pc = "idle" =>
           LET hd == handlers[h] IN
           \/ /\ balance' = [balance EXCEPT ![hd.userId] = @ - hd.amt]
              /\ Len(requests') = Len(requests) + 1
              /\ SubSeq(requests', 1, Len(requests)) = requests
              /\ requests'[Len(requests')].userId = hd.userId
              /\ requests'[Len(requests')].amount = hd.amt
              /\ requests'[Len(requests')].status = TxStatusPending
           \/ /\ balance' = balance
              /\ requests' = requests]_vars

----------------------------------------------------------------------------
\* A handler invocation that ends in its first step with a response and
\* without going on to a later statement
FailsAtStart == handlers' = handlers /\ last' # last

\* Everything in the database and at the custody service
Ledger == <<balance, requests, txs, transfers, refunds>>

\* C11: with calls processed one after the other, rejecting a PENDING
\* request with a non-empty reason adds exactly the request's amount to the
\* user's balance and makes the request REJECTED with the reason as error
\* message; a Reject of a request that is not PENDING goes no further than its
\* checks, answers InvalidStateTransition and changes nothing, so that the
\* credits Reject gives back for a request never exceed its amount.
C11_RejectRefundsOnce ==
    /\ [](\A id \in ReqIds : refunds.byReject[id] <= requests[id].amount)
    /\ [][\A h \in Handlers :
            /\ (handlers[h].pc = "rej_commit" /\ requests' # requests) =>
                 LET hd == handlers[h]
                     wr == requests[hd.rid]
                 IN  /\ wr.status = TxStatusPending
                     /\ hd.reason # ""
                     /\ balance' = [balance EXCEPT ![wr.userId] = @ + wr.amount]
                     /\ requests' = [requests EXCEPT
                                        ![hd.rid].status = TxStatusRejected,
                                        ![hd.rid].err = hd.reason]
            /\ (handlers[h].pc = "idle" /\ handlers'[h].pc = "rej_user") =>
                 requests[handlers'[h].rid].status = TxStatusPending
            /\ (/\ FailsAtStart
                /\ last'.op = "Reject" /\ last'.res # "ReasonRequired"
                /\ last'.rid \in ReqIds
                /\ requests[last'.rid].status # TxStatusPending) =>
                 /\ last'.res = "InvalidStateTransition"
                 /\ UNCHANGED Ledger]_vars

\* C11 witness: balance 100, Initiate(30) gave 70, Reject("bad address") gave
\* 100 and REJECTED, and a second Reject of request 1 was refused.
C11_Witness ==
    /\ last = RespFor("Reject", "InvalidStateTransition", 1)
    /\ AllIdle
    /\ Len(requests) = 1
    /\ requests[1].userId = 1 /\ requests[1].amount = 30
    /\ requests[1].status = TxStatusRejected
    /\ requests[1].err = "bad address"
    /\ balance[1] = 100
    /\ refunds.byReject[1] = 30

\* C12: an Approve or a Reject called on a request that is not PENDING goes
\* no further than its checks: it answers InvalidStateTransition (a Reject
\* whose reason is empty is refused for the missing reason, before its request
\* is looked at) and leaves requests, balances, transactions and the custody
\* service unchanged; no Approve or Reject goes on to its writes for a
\* request it did not read as PENDING.
AdminOps == {"Approve", "Reject"}
ApproveStep ==
    \/ FailsAtStart /\ last'.op = "Approve"
    \/ \E h \in Handlers :
          /\ handlers'[h] # handlers[h]
          /\ \/ handlers[h].pc \in {"appr_create", "appr_save"}
             \/ handlers'[h].pc = "appr_create"
C13_ApproveKeepsBalance == [][ApproveStep => balance' = balance]_vars

\* C13 witness: after Initiate(30) from 100 request 1 was approved; the
\* balance is the 70 that Initiate left.
C13_Witness ==
    /\ last = RespFor("Approve", "Approved", 1)
    /\ AllIdle
    /\ Len(requests) = 1 /\ requests[1].status = TxStatusApproved
    /\ Len(txs) = 1 /\ txs[1].status = TxStatusApproved
    /\ txs[1].credits = 30
    /\ balance = [InitBalance EXCEPT ![1] = 70]

\* C14: an Approve of a PENDING request that fails because the wallet, the
\* chain row or the token contract is missing, or because the custody call
\* returns an error, leaves the request PENDING with every field as it was,
\* creates no transaction, initiates no transfer and leaves the balance
\* debited; the request can be approved again.
ApproveFailures ==
    {"WalletNotFound", "ChainNotConfigured", "UnsupportedToken",
     "TokenNotAvailable", "CustodyServiceError"}
C14_FailedApproveKeepsPending ==
    [][(FailsAtStart /\ last'.op = "Approve" /\ last'.res \in ApproveFailures) =>
          /\ UNCHANGED Ledger
          /\ last'.rid \in ReqIds
          /\ requests'[last'.rid].status = TxStatusPending
          /\ CanBeApproved(requests'[last'.rid])]_vars

\* C14 witness: Initiate(30) from 100, then an Approve for which the custody
\* call failed: request 1 still PENDING, no transaction, no transfer, balance
\* still 70.
C14_Witness ==
    /\ last = RespFor("Approve", "CustodyServiceError", 1)
    /\ AllIdle
    /\ Len(requests) = 1 /\ requests[1].status = TxStatusPending
    /\ requests[1].amount = 30 /\ requests[1].txId = 0
    /\ Len(txs) = 0 /\ Len(transfers) = 0
    /\ balance[1] = 70

\* C15: with notifications processed one after the other, a Failed outcome
\* for the transfer of an APPROVED withdrawal makes the transaction FAILED,
\* adds exactly the transaction's amountCredits to the user's balance, and
\* makes the linked request FAILED with a non-empty error message (each of
\* the three writes, when the database takes it).
FailedOnApproved(h) == handlers[h].tx.status = TxStatusApproved
C15_FailedRefunds ==
    [][\A h \in Handlers :
         /\ (/\ handlers[h].pc = "idle" /\ handlers'[h].pc = "fail_user"
             /\ txs[handlers'[h].tid].status = TxStatusApproved) =>
               /\ txs' = [txs EXCEPT ![handlers'[h].tid].status = TxStatusFailed]
               /\ txs[handlers'[h].tid].type = TxTypeWithdrawal
         /\ (/\ handlers[h].pc = "fail_credit" /\ FailedOnApproved(h)
             /\ refunds' # refunds) =>
               LET hd == handlers[h] IN
               /\ balance' = [balance EXCEPT ![txs[hd.tid].userId] =
                                 @ + txs[hd.tid].credits]
               /\ refunds'.byFailed[hd.tid] = txs[hd.tid].credits
         /\ (/\ handlers[h].pc = "fail_find" /\ FailedOnApproved(h)) =>
               handlers'[h].pc = "fail_save"
         /\ (/\ handlers[h].pc = "fail_save" /\ FailedOnApproved(h)
             /\ requests' # requests) =>
               LET hd == handlers[h] IN
               /\ requests[hd.rid].txId = hd.tid
               /\ requests[hd.rid].status = TxStatusApproved
               /\ requests' = [requests EXCEPT
                                  ![hd.rid].status = TxStatusFailed,
                                  ![hd.rid].err = "Transfer failed on blockchain"]
               /\ requests'[hd.rid].err # ""]_vars

\* C15 witness: Initiate(30) from 100 left 70, the request was approved, and
\* the Failed outcome of its transfer brought the balance back to 100 with
\* transaction and request FAILED.
C15_Witness ==
    /\ last = Resp("Failed", "Done")
    /\ AllIdle
    /\ Len(requests) = 1 /\ Len(txs) = 1
    /\ txs[1].status = TxStatusFailed /\ txs[1].credits = 30
    /\ requests[1].status = TxStatusFailed
    /\ requests[1].err = "Transfer failed on blockchain"
    /\ refunds.byFailed[1] = 30
    /\ balance[1] = 100

\* C16: the handling of a Failed outcome is one atomic action: in every
\* state, a withdrawal transaction has been refunded if and only if it is
\* FAILED, and a request linked to it is FAILED if and only if it is.
C16_FailedIsAtomic ==
    \A i \in TxIds :
        txs[i].type = TxTypeWithdrawal =>
            /\ (refunds.byFailed[i] > 0) <=> (txs[i].status = TxStatusFailed)
            /\ \A r \in ReqIds :
                 requests[r].txId = i =>
                    ((requests[r].status = TxStatusFailed)
                        <=> (txs[i].status = TxStatusFailed))

\* C17: with notifications processed one after the other, a Completed
\* outcome for the transfer of an APPROVED withdrawal makes the transaction
\* COMPLETED with the notification's txHash, makes the linked request
\* COMPLETED (when the database takes the write), and no step of the handler
\* changes a balance.
CompletedStep ==
    \/ FailsAtStart /\ last'.op = "Completed"
    \/ \E h \in Handlers :
          /\ handlers'[h] # handlers[h]
          /\ \/ handlers[h].pc \in {"comp_find", "comp_save"}
             \/ handlers'[h].pc = "comp_find"
C17_CompletedFinalizes ==
    [][/\ CompletedStep => balance' = balance /\ refunds' = refunds
       /\ \A h \in Handlers :
            /\ (/\ handlers[h].pc = "idle" /\ handlers'[h].pc = "comp_find"
                /\ txs[handlers'[h].tid].status = TxStatusApproved) =>
                  LET tid == handlers'[h].tid IN
                  /\ txs'[tid].status = TxStatusCompleted
                  /\ txs'[tid].txHash \in OutcomeHashes
                  /\ txs' = [txs EXCEPT ![tid].status = TxStatusCompleted,
                                        ![tid].txHash = txs'[tid].txHash]
            /\ handlers[h].pc = "comp_find" => handlers'[h].pc = "comp_save"
            /\ (handlers[h].pc = "comp_save" /\ requests' # requests) =>
                  LET hd == handlers[h] IN
                  /\ requests[hd.rid].txId = hd.tid
                  /\ txs[hd.tid].status = TxStatusCompleted
                  /\ requests' = [requests EXCEPT
                                     ![hd.rid].status = TxStatusCompleted]]_vars

\* C17 witness: Initiate(30) from 100 left 70, the request was approved, and
\* the Completed outcome of its transfer (hash hW) made transaction and
\* request COMPLETED; the balance is still 70.
C17_Witness ==
    /\ last = Resp("Completed", "Done")
    /\ AllIdle
    /\ Len(requests) = 1 /\ Len(txs) = 1
    /\ txs[1].status = TxStatusCompleted /\ txs[1].txHash = "hW"
    /\ txs[1].credits = 30
    /\ requests[1].status = TxStatusCompleted /\ requests[1].txId = 1
    /\ refunds.byFailed[1] = 0
    /\ balance[1] = 70

\* C18: the committing step of Initiate, of Reject and of the deposit
\* handler writes the balance and the request / transaction row together or
\* writes neither: when a write inside the database transaction fails,
\* balance, requests and transactions are as before.
C18_BalanceAndRowTogether ==
    [][\A h \in Handlers :
         LET hd == handlers[h] IN
         /\ (hd.pc = "init_commit" /\ handlers'[h].pc = "idle") =>
              \/ /\ balance' = [balance EXCEPT ![hd.userId] = hd.bal - hd.amt]
                 /\ Len(requests') = Len(requests) + 1
                 /\ requests'[Len(requests')].amount = hd.amt
                 /\ requests'[Len(requests')].status = TxStatusPending
                 /\ last'.res = "Created"
              \/ /\ UNCHANGED <<balance, requests, txs>>
                 /\ last'.res = "DbError"
         /\ (hd.pc = "rej_commit" /\ handlers'[h].pc = "idle") =>
              \/ /\ balance' = [balance EXCEPT ![hd.req.userId] =
                                   hd.bal + hd.req.amount]
                 /\ requests'[hd.rid].status = TxStatusRejected
                 /\ requests'[hd.rid].err = hd.reason
                 /\ last'.res = "Rejected"
              \/ /\ UNCHANGED <<balance, requests, txs>>
                 /\ last'.res = "DbError"
         /\ (hd.pc = "dep_commit" /\ handlers'[h].pc = "idle") =>
              \/ /\ balance' = [balance EXCEPT ![hd.userId] = hd.bal + hd.amt]
                 /\ Len(txs') = Len(txs) + 1
                 /\ txs'[Len(txs')].type = TxTypeDeposit
                 /\ txs'[Len(txs')].credits = hd.amt
                 /\ last'.res = "Credited"
              \/ /\ UNCHANGED <<balance, requests, txs>>
                 /\ last'.res = "DbError"]_vars

\* C18 witness: an Initiate whose database transaction failed: no request,
\* and the balances as they were.
C18_Witness ==
    /\ last = Resp("Initiate", "DbError")
    /\ AllIdle
    /\ nOps = 1
    /\ requests = <<>> /\ txs = <<>>
    /\ balance = InitBalance

\* The sum of the amounts of the user's requests created on the current UTC
\* day whose status is PENDING, APPROVED, COMPLETED or FAILED
DailyUsage(u) ==
    SumSeq([i \in ReqIds |->
              IF /\ requests[i].userId = u
                 /\ requests[i].day = today
                 /\ requests[i].status \in {TxStatusPending, TxStatusApproved,
                                            TxStatusCompleted, TxStatusFailed}
              THEN requests[i].amount ELSE 0])

\* C19: the daily usage of a user is the sum of the amounts of the user's
\* non-REJECTED requests created since the start of the current UTC day; the
\* limit step of Initiate refuses the call with DailyLimitExceeded exactly
\* when usage + amount > 50,000 (usage + amount = 50,000 passes).
C19_DailyLimitBoundary ==
    [][\A h \in Handlers :
         (handlers[h].pc = "init_limit" /\ handlers'[h] # handlers[h]) =>
            ((/\ last' = Resp("Initiate", "DailyLimitExceeded")
              /\ handlers'[h].pc = "idle")
               <=> DailyUsage(handlers[h].userId) + handlers[h].amt > 50000)]_vars

\* C19 witness: with 49,990 used today a request of 10 was created (usage
\* 50,000) and the next call was refused.
C19_Witness ==
    /\ last = Resp("Initiate", "DailyLimitExceeded")
    /\ AllIdle
    /\ today = 1
    /\ Len(requests) = 11
    /\ requests[10].amount = 3990
    /\ requests[11].amount = 10 /\ requests[11].status = TxStatusPending
    /\ requests[11].day = 1
    /\ DailyUsage(1) = 50000

\* The answers of an Initiate call that was refused
InitiateRefusals ==
    {"InvalidChain", "InvalidToken", "InvalidAddress",
     "BelowMinimum", "AboveMaximum", "InsufficientBalance",
     "DailyLimitExceeded"}

\* The step in which handler h answers an Initiate call with a refusal
InitiateRefused(h) ==
    /\ last'.op = "Initiate" /\ last'.res \in InitiateRefusals
    /\ \/ handlers[h].pc = "idle" /\ FailsAtStart
       \/ handlers[h].pc = "init_limit" /\ handlers'[h].pc = "idle"

\* C20: an Initiate call that fails with a validation error, with
\* InsufficientBalance or with DailyLimitExceeded has no partial effect: no
\* step of the call, the one that answers included, changes a balance or the
\* withdrawal requests.
C20_FailedInitiateNoEffect ==
    [][\A h \in Handlers :
         (\/ InitiateRefused(h)
          \/ handlers[h].pc = "idle" /\ handlers'[h].pc = "init_limit") =>
            /\ balance' = balance
            /\ requests' = requests]_vars

\* C20 witness: the first call of the day's history, refused by the daily
\* limit after passing validation, with the balances and the ten requests
\* as they were.
C20_Witness ==
    /\ last = Resp("Initiate", "DailyLimitExceeded")
    /\ AllIdle
    /\ nOps = 1
    /\ balance = InitBalance
    /\ requests \in {DailyHistory(a) : a \in DailyLastAmounts}

\* C21: every withdrawal request that exists has a supported chain and token,
\* a toAddress in the address format of its own chain, and an amount with
\* 10 <= amount <= 10,000.
C21_RequestsAreValid ==
    \A i \in 1..Len(requests) :
        /\ IsValidChainName(requests[i].chainName)
        /\ IsValidTokenSymbol(requests[i].token)
        /\ IsValidAddress(requests[i].toAddress, requests[i].chainName)
        /\ requests[i].amount >= 10
        /\ requests[i].amount <= 10000

\* C23: ConvertToCredits(rawAmount, decimals) is floor(rawAmount /
\* 10^decimals) for every non-negative decimal string, however large: the
\* result q is non-negative and q * 10^decimals <= rawAmount <
\* (q + 1) * 10^decimals.
C23_ConvertIsFloor ==
    conv.fn = "ConvertToCredits" =>
        LET amount == StripZeros(conv.args[1])
            decimals == conv.args[2]
            q == conv.out
        IN  /\ IsDecimalString(q)
            /\ ~BigLess(amount, BigMulExp10(q, decimals))
            /\ BigLess(BigSub(amount, BigMulExp10(q, decimals)),
                       <<"1">> \o Zeros(decimals))

\* The decimal string s is the number n followed by k zeros
IsScaled(s, n, k) ==
    IF n = 0 THEN s = <<"0">>
    ELSE /\ Len(s) > k
         /\ s[1] # "0"
         /\ \A i \in (Len(s) - k + 1)..Len(s) : s[i] = "0"
         /\ NatOf(SubSeq(s, 1, Len(s) - k)) = n

\* C24: CreditsToTokenAmount(credits, decimals) is exactly credits *
\* 10^decimals, and converting that amount back with ConvertToCredits gives
\* credits again, for every credits >= 0.
C24_RoundTrip ==
    /\ conv.fn = "CreditsToTokenAmount" =>
          IsScaled(conv.out, conv.args[1], conv.args[2])
    /\ conv.fn = "RoundTrip" =>
          /\ IsDecimalString(conv.out)
          /\ NatOf(conv.out) = conv.args[1]

\* C24 witness: 10,000 credits of a 6-decimal token went out as
\* 10000000000 and came back as 10,000.
C24_Witness ==
    /\ conv.fn = "RoundTrip"
    /\ conv.args = <<10000, 6>>
    /\ conv.out = <<"1", "0", "0", "0", "0">>

\* C25: GetTokenDecimals gives 6 for USDC and USDT, and no scale at all for
\* any other symbol.
C25_UnknownSymbolFails ==
    conv.fn = "GetTokenDecimals" =>
        IF conv.args[1] \in {"USDC", "USDT"} THEN conv.out = 6
        ELSE conv.out \notin Nat

\* A step in which the endpoint answers a delivery
Delivered == delivery'.turn # delivery.turn

\* C22: a delivery whose body was read and whose signature does not verify
\* against the shared secret is answered 401, starts no processor and changes
\* no balance, transaction or request, whatever the deployment's secret is.
C22_UnverifiedRejected ==
    [][(Delivered /\ delivery'.body.read /\ ~delivery'.verified)
          => /\ delivery'.status = 401
             /\ handlers' = handlers
             /\ Ledger' = Ledger]_vars

\* A step in which the endpoint hands the data of an inbound transfer to the
\* deposit processor
DepositDelivered ==
    /\ Delivered
    /\ delivery'.status = 200
    /\ delivery'.body.kind \in {EventTransferInbound, EventTransferConfirmed}
    /\ delivery'.body.dataParses

\* C26: a deposit notification whose raw amount is below 1,000,000 units of a
\* 6-decimal token, which converts to zero credits, is dropped: the processor
\* returns at once, no transaction is created and no balance changes.
C26_DustDropped ==
    [][(DepositDelivered
        /\ BigLess(SetString(delivery'.body.data.amount), Exp10(6)))
          => /\ handlers' = handlers
             /\ Ledger' = Ledger]_vars

\* The notification of 999,999 raw units to a known wallet in a known token
\* was dropped for its amount
C26_Witness ==
    /\ delivery.status = 200
    /\ delivery.body.data.amount = <<"9","9","9","9","9","9">>
    /\ last = Resp("Deposit", "Dust")
    /\ txs = << HistTx(TxStatusApproved, "", 1) >>
    /\ balance = InitBalance

\* The contract is one of those configured for the chain, letter case
\* aside; a chain configures a token when its row holds an address for it
ContractConfigured(contract, chainId) ==
    /\ chainId \in SeededChainIds
    /\ \/ /\ USDCAddress(chainId) # ""
          /\ EqualAddresses(contract, USDCAddress(chainId))
       \/ /\ USDTAddress(chainId) # ""
          /\ EqualAddresses(contract, USDTAddress(chainId))

\* The data names another direction, a wallet this deployment does not hold,
\* or a contract that is not configured for the chain of the wallet
Undepositable(ev) ==
    \/ ev.direction # "Inbound"
    \/ \A w \in wallets : w.dfnsWalletId # ev.walletId
    \/ \E w \in wallets : /\ w.dfnsWalletId = ev.walletId
                          /\ ~ContractConfigured(ev.contract, w.chainId)

\* C27: a deposit notification is dropped, with no balance, transaction or
\* request changed and no processing started, when its direction is not
\* Inbound, when its wallet id matches no local wallet, or when its contract
\* is not, letter case aside, the USDC or USDT contract of the wallet's chain.
C27_UndepositableDropped ==
    [][(DepositDelivered /\ Undepositable(delivery'.body.data))
          => /\ handlers' = handlers
             /\ Ledger' = Ledger]_vars

\* A step in which the endpoint hands the data of a Completed or Failed
\* event to its processor
OutcomeDelivered ==
    /\ Delivered
    /\ delivery'.status = 200
    /\ delivery'.body.kind \in {EventTransferCompleted, EventTransferFailed}
    /\ delivery'.body.dataParses

\* C28: a Completed or Failed notification whose transfer id is the
\* dfns_tx_id of no transaction is dropped: the processor returns at once
\* and no balance, transaction or withdrawal request changes.
C28_UnknownOutcomeDropped ==
    [][(OutcomeDelivered
        /\ \A i \in TxIds : txs[i].dfnsId # delivery'.body.data.id)
          => /\ handlers' = handlers
             /\ Ledger' = Ledger]_vars

\* A Failed notification of a foreign transfer was dropped while the
\* withdrawal of the history is still APPROVED
C28_Witness ==
    /\ delivery.status = 200
    /\ delivery.body.kind = EventTransferFailed
    /\ delivery.body.data.id = ForeignTransferId
    /\ last = Resp("Failed", "TxNotFound")
    /\ txs[1].status = TxStatusApproved
    /\ requests[1].status = TxStatusApproved
    /\ balance = InitBalance

\* C29: a delivery whose body was read and whose signature verifies is
\* answered 200 whatever its processing runs into: a payload that does not
\* parse, an unknown wallet, an unknown contract or a duplicate are logged
\* and dropped, never reported to the sender as an error.
C29_VerifiedAcknowledged ==
    [][(Delivered /\ delivery'.body.read /\ delivery'.verified)
          => delivery'.status = 200]_vars

\* No two active wallets of one user on one chain
OneActiveWallet ==
    \A w \in wallets, v \in wallets :
        (w.userId = v.userId /\ w.chainName = v.chainName
         /\ w.isActive /\ v.isActive) => w = v

\* Every wallet row stays, with its address
AddressKept ==
    \A w \in wallets : \E v \in wallets' : v.id = w.id /\ v.address = w.address

\* C30: in every reachable state a user has at most one active wallet on a
\* chain, also when several requests for the deposit address of the same
\* user and chain run at once before the wallet exists; and the address of a
\* wallet, once created, never changes.
C30_OneWalletPerUserChain == []OneActiveWallet /\ [][AddressKept]_vars

\* A step in which Reject answers that the reason is missing
RejectRefusedForReason ==
    /\ last' # last
    /\ last'.op = "Reject"
    /\ last'.res = "ReasonRequired"

\* C31: a Reject with an empty reason fails and has no effect: no balance,
\* request or transaction changes at its refusal, and no request is ever
\* REJECTED with an empty reason.
C31_EmptyReasonRefused ==
    [][/\ RejectRefusedForReason => (Ledger' = Ledger /\ handlers' = handlers)
       /\ \A i \in 1..Len(requests') :
             requests'[i].status = TxStatusRejected => requests'[i].err # ""]_vars

\* Reject with an empty reason was refused on the PENDING request 1, whose
\* 30 credits stay debited
C31_Witness ==
    /\ last = RespFor("Reject", "ReasonRequired", 1)
    /\ Len(requests) = 1
    /\ requests[1].status = TxStatusPending
    /\ requests[1].amount = 30
    /\ balance[requests[1].userId] = InitBalance[requests[1].userId] - 30
    /\ refunds.byReject[1] = 0

\* C32: over the lifetime of a request the custody service is successfully
\* asked for at most one outbound transfer, however Approve calls interleave
\* or are repeated, and what it is asked to send is the raw amount of the
\* credits debited for the request.
C32_OneTransferPerRequest ==
    \A id \in ReqIds :
        /\ Cardinality(TransfersFor(id)) <= 1
        /\ \A t \in TransfersFor(id) :
              transfers[t].raw = BigMulExp10(NatString(requests[id].amount), 6)

\* The WITHDRAWAL transactions recorded for the transfers of request id
WithdrawalTxsOf(id) ==
    {i \in TxIds : /\ txs[i].type = TxTypeWithdrawal
                   /\ txs[i].dfnsId \in TransfersFor(id)}

\* The credits given back to the user for request id, by Reject and by the
\* handling of Failed notifications together
RefundedFor(id) ==
    refunds.byReject[id]
    + SumSeq([i \in TxIds |-> IF i \in WithdrawalTxsOf(id)
                              THEN refunds.byFailed[i] ELSE 0])

\* C33: over the lifetime of a request the credits refunded for it, by Reject
\* and by Failed-outcome handling combined, are 0 or exactly its amount.
C33_RefundedAtMostOnce ==
    \A id \in ReqIds : RefundedFor(id) \in {0, requests[id].amount}

\* The step in which handler h stores the balance it computed from the one
\* it loaded: the commit of Initiate, of Reject and of a deposit, and the
\* refund of a failed withdrawal
BalanceWrite(h) ==
    /\ handlers[h].pc \in {"init_commit", "rej_commit", "dep_commit",
                           "fail_credit"}
    /\ handlers'[h].pc # handlers[h].pc
    /\ balance' # balance

\* C34: no balance mutation of a user is lost when two of them overlap: the
\* balance a handler stores is the user's current balance plus the handler's
\* delta, that is, the balance it loaded is still the user's balance when it
\* stores.
C34_NoLostUpdate ==
    [][\A h \in Handlers : \A u \in Users :
          (BalanceWrite(h) /\ balance'[u] # balance[u])
              => handlers[h].bal = balance[u]]_vars

\* The endpoint has acknowledged the notification of the given kind for a
\* transfer of request 1
Notified(kind) ==
    /\ delivery.status = 200
    /\ delivery.body.kind = kind
    /\ delivery.body.data.id \in TransfersFor(1)

\* C35: a withdrawal whose transfer Approve initiated is finalized once the
\* custody service has delivered the outcome, at whatever point of Approve's
\* remaining writes the notification arrives: after Completed the request
\* eventually is COMPLETED, after Failed it eventually is FAILED.
C35_EventuallyFinalized ==
    /\ Notified(EventTransferCompleted)
          ~> (requests[1].status = TxStatusCompleted)
    /\ Notified(EventTransferFailed)
          ~> (requests[1].status = TxStatusFailed)

\* C36: an Inbound notification for a known wallet and a configured token
\* that converts to at least one credit, and whose txHash no DEPOSIT
\* transaction carries yet, is not dropped: the processor goes on to credit
\* it, whatever transactions of other types carry the same txHash.
C36_DepositNotMistakenForDuplicate ==
    [][(DepositDelivered
        /\ ~Undepositable(delivery'.body.data)
        /\ ~BigLess(SetString(delivery'.body.data.amount), Exp10(6))
        /\ DepositTxsWithHash(delivery'.body.data.txHash) = {})
          => \E h \in Handlers : /\ handlers[h].pc = "idle"
                                 /\ handlers'[h].pc = "dep_user"]_vars

\* C37: a DEPOSIT transaction is COMPLETED from its creation and keeps its
\* status and its txHash: no Completed or Failed notification, matched by
\* the custody id stored on the deposit, changes a deposit transaction.
C37_DepositStaysCompleted ==
    /\ [](\A i \in TxIds :
            txs[i].type = TxTypeDeposit => txs[i].status = TxStatusCompleted)
    /\ [][\A i \in TxIds :
            txs[i].type = TxTypeDeposit =>
                /\ txs'[i].status = txs[i].status
                /\ txs'[i].txHash = txs[i].txHash]_vars

\* The requests that link transaction i
LinkedFrom(i) == {id \in ReqIds : requests[id].txId = i}

\* C38: whenever no handler is in the middle of its execution, a request
\* links a transaction exactly when it is APPROVED, COMPLETED or FAILED; the
\* linked transaction is a WITHDRAWAL of the same user, for the request's
\* amount in credits and that amount times 10^6 in raw units, and has the
\* request's status; and every WITHDRAWAL transaction is linked from exactly
\* one request.
C38_RequestAndTransactionAgree ==
    AllIdle =>
        /\ \A id \in ReqIds :
              /\ requests[id].txId # 0
                    <=> requests[id].status \in {TxStatusApproved,
                                                 TxStatusCompleted,
                                                 TxStatusFailed}
              /\ requests[id].txId # 0 =>
                    LET tx == txs[requests[id].txId] IN
                    /\ tx.type = TxTypeWithdrawal
                    /\ tx.userId = requests[id].userId
                    /\ tx.credits = requests[id].amount
                    /\ transfers[tx.dfnsId].raw
                          = BigMulExp10(NatString(requests[id].amount), 6)
                    /\ tx.status = requests[id].status
        /\ \A i \in TxIds :
              txs[i].type = TxTypeWithdrawal => Cardinality(LinkedFrom(i)) = 1

\* The sum of the amounts of the user's non-REJECTED requests created on the
\* UTC day given
UsageOn(u, d) ==
    SumSeq([i \in ReqIds |->
              IF /\ requests[i].userId = u
                 /\ requests[i].day = d
                 /\ requests[i].status # TxStatusRejected
              THEN requests[i].amount ELSE 0])

\* C39: for every user and every UTC day the amounts of the user's
\* non-REJECTED requests created on that day sum to at most 50,000, also
\* when several Initiate calls of the user run at once.
C39_DailyLimitNeverExceeded ==
    \A u \in Users : \A d \in 0..MaxDay :
        UsageOn(u, d) <= DailyWithdrawalLimit

====
